---------------------------- MODULE Spec2Model ----------------------------
(***************************************************************************)
(* netprobe: the statistical core (pkg/stats) and the bufferbloat          *)
(* detector (pkg/detect), as state machines.                               *)
(*                                                                         *)
(*   SpecHistogram  one LatencyHistogram under AddSample/AddSamples and    *)
(*                  its queries (pkg/stats/histogram.go)                   *)
(*   SpecDetect     one BufferbloatDetector.Detect call: the sequential    *)
(*                  measurement flow, the background load goroutine and    *)
(*                  its ticker, in discrete time (pkg/detect/bufferbloat.go)*)
(*   SpecJitter     one JitterCalculator and CalculateJitterStats          *)
(*                  (pkg/stats/jitter.go)                                  *)
(*   SpecPercentile Percentile in float64, as the code computes it, on     *)
(*                  histograms of given samples                            *)
(*                  (pkg/stats/histogram.go, lines 110-132)                *)
(*   SpecStdDev     StdDev with the square root in float64, as the code    *)
(*                  computes it, on histograms of given samples            *)
(*                  (pkg/stats/histogram.go, lines 91-107 and 208-217)     *)
(*   SpecICMP       one ICMPProber.Probe call, its socket and the network  *)
(*                  (pkg/probe/icmp.go)                                    *)
(*   SpecUDP        one UDPProber.Probe call, its socket and the network   *)
(*                  (pkg/probe/udp.go)                                     *)
(*   SpecAssess     the increase ratios, the bufferbloat flag and the      *)
(*                  severity Detect derives from six percentiles           *)
(*                  (pkg/detect/bufferbloat.go, lines 101-114)             *)
(*                                                                         *)
(* A time.Duration is an integer number of nanoseconds.                    *)
(***************************************************************************)
EXTENDS Integers, Sequences, FiniteSets, TLC

VARIABLES
    \* ---- SpecHistogram
    hist,       \* the LatencyHistogram: [samples, sorted, isDirty], and sorts, the
                \* number of times it has been sorted since the last append
    hret,       \* the last histogram query made since the last append, and its answer
                \* (with the argument p of a Percentile(p) query)
    added,      \* the durations AddSample has been called with, in call order
    \* ---- SpecDetect: the arguments and locals of one Detect call
    idleCount,          \* argument
    loadCount,          \* argument
    pc,                 \* where the sequential flow of Detect stands
    sleep,              \* time left of the probe call or time.Sleep Detect is blocked in
    i,                  \* the loop index of the loaded phase
    idleHist,           \* the idle LatencyHistogram
    loadedLatencies,    \* the loaded-phase samples
    stopLoad,           \* TRUE once close(stopLoad) has run
    result,             \* the BufferbloatResult returned
    err,                \* the error returned (NoError for nil)
    \* ---- SpecDetect: the background load goroutine and its ticker
    bg,                 \* "unborn", "spawned", "select", "probing" or "exited"
    bgSleep,            \* time left of the probe call the goroutine is blocked in
    tickerLeft,         \* time to the ticker's next tick; -1 while there is no running ticker
    tickerC,            \* number of ticks waiting in ticker.C (a channel of capacity 1)
    \* ---- SpecDetect: what has happened, for the properties
    idleOutcome,        \* what the idle-phase probe request returned: <<>> before, <<outcome>> after
    measured,           \* what each loaded-phase measurement request returned, in order
    bgProbed,           \* TRUE once the goroutine has called the probe function
    bgLateStart,        \* TRUE once the goroutine has started a probe after close(stopLoad)
    bgAtReturn,         \* where the goroutine stood when Detect read the samples and returned
    \* ---- SpecJitter
    jc,         \* the JitterCalculator: [lastTimestamp, interarrival, jitter, count, initialized]
    jrtts,      \* rtts, the argument of the CalculateJitterStats call in progress, as its
                \* runs <<[rtt, times], ...>> of repeated values (<<>> when no call is)
    next,       \* the index of the sample its loop adds next (0 when no call is in progress)
    jstats,     \* what CalculateJitterStats returned: <<>> before the call, <<JitterStats>> after
    \* ---- SpecAssess
    assessed,   \* the BufferbloatResult assessed last: <<>> before, <<result>> after
    \* ---- SpecICMP, SpecUDP: one Probe() call of a prober, its socket and the network
    pcount,     \* config.Count
    ppc,        \* where Probe stands: "start", "send", "recv", "sleep", "done" or "failed"
    pseq,       \* the sequence number i+1 of the probe in hand
    psleep,     \* time left of time.Sleep(Interval)
    pdeadline,  \* time left to the connection's read deadline (-1: none set)
    pelapsed,   \* time since sendTime of the probe in hand
    pnet,       \* the packets on their way to the socket: [id, seq, left]
    psock,      \* the packets in the socket's receive queue, oldest first: [id, seq]
    presults,   \* results, with the packet each successful read returned (reply)
                \* and the time each probe spent in its read (waited)
    pfate,      \* per probe sent, the delay the network gave its echo: Lost, or
                \* the time from send to arrival; NotSent if the write failed
    pforeign    \* the number of packets of other senders delivered so far

histVars == <<hist, hret, added>>

detectVars == <<idleCount, loadCount, pc, sleep, i, idleHist, loadedLatencies,
                stopLoad, result, err, bg, bgSleep, tickerLeft, tickerC,
                idleOutcome, measured, bgProbed, bgLateStart, bgAtReturn>>

jitterVars == <<jc, jrtts, next, jstats>>

assessVars == <<assessed>>

probeVars == <<pcount, ppc, pseq, psleep, pdeadline, pelapsed, pnet, psock,
               presults, pfate, pforeign>>

vars == <<histVars, detectVars, jitterVars, assessVars, probeVars>>

\* what the steps of one component leave alone
histOthers == <<detectVars, jitterVars, assessVars, probeVars>>

detectOthers == <<histVars, jitterVars, assessVars, probeVars>>

jitterOthers == <<histVars, detectVars, assessVars, probeVars>>

assessOthers == <<histVars, detectVars, jitterVars, probeVars>>

probeOthers == <<histVars, detectVars, jitterVars, assessVars>>

(***************************************************************************)
(* Bounds of the model.                                                    *)
(***************************************************************************)
\* the longest raw sample sequence of the histogram under SpecHistogram
MaxSamples == 4

\* the largest idleCount and loadCount Detect is called with
MaxIdleCount == 1

MaxLoadCount == 2

\* the longest a call of the probe function takes, in units of 10 ms
MaxProbeTime == 12

\* the most samples one JitterCalculator is given, one AddSample at a time
MaxJitterSamples == 4

\* the longest run of one repeated RTT in an input of CalculateJitterStats
MaxRun == 650

\* the round-trip times a probe can report, in nanoseconds (non-negative;
\* 999 ns is less than a microsecond and 4500 ns is not a whole number of them)
RTTs == {999, 1000, 4500, 7000}

(***************************************************************************)
(* int64.  A 64-bit integer is its two's-complement bit pattern, as four   *)
(* 16-bit limbs, the least significant first; arithmetic wraps modulo 2^64 *)
(* as Go's does.                                                           *)
(***************************************************************************)
Limb == 65536

\* the int64 of an integer of small magnitude (below 2^31)
I64Nat(n) == <<n % Limb, (n \div Limb) % Limb, 0, 0>>

I64Add(a, b) ==
    LET c1 == a[1] + b[1]
        c2 == a[2] + b[2] + (c1 \div Limb)
        c3 == a[3] + b[3] + (c2 \div Limb)
        c4 == a[4] + b[4] + (c3 \div Limb)
    IN  <<c1 % Limb, c2 % Limb, c3 % Limb, c4 % Limb>>

I64Not(a) == <<Limb - 1 - a[1], Limb - 1 - a[2], Limb - 1 - a[3], Limb - 1 - a[4]>>

\* -a
I64Neg(a) == I64Add(I64Not(a), <<1, 0, 0, 0>>)

\* a - b
I64Sub(a, b) == I64Add(a, I64Neg(b))

I64(n) == IF n >= 0 THEN I64Nat(n) ELSE I64Neg(I64Nat(-n))

\* a < 0
I64IsNeg(a) == a[4] >= Limb \div 2

\* a < b
I64Less(a, b) ==
    IF I64IsNeg(a) # I64IsNeg(b) THEN I64IsNeg(a)
    ELSE \E k \in 1..4 : a[k] < b[k] /\ \A j \in (k + 1)..4 : a[j] = b[j]

\* the bit pattern taken as an unsigned number, divided by m (0 < m <= 2^15)
U64Div(a, m) ==
    LET r4 == a[4] % m
        n3 == r4 * Limb + a[3]
        r3 == n3 % m
        n2 == r3 * Limb + a[2]
        r2 == n2 % m
        n1 == r2 * Limb + a[1]
    IN  <<n1 \div m, n2 \div m, n3 \div m, a[4] \div m>>

\* a / m in Go: the quotient truncated toward zero (0 < m <= 2^15)
I64Quo(a, m) ==
    IF I64IsNeg(a) THEN I64Neg(U64Div(I64Neg(a), m)) ELSE U64Div(a, m)

\* a * m (0 <= m <= 2^15)
I64Mul(a, m) ==
    LET p1 == a[1] * m
        p2 == a[2] * m + (p1 \div Limb)
        p3 == a[3] * m + (p2 \div Limb)
        p4 == a[4] * m + (p3 \div Limb)
    IN  <<p1 % Limb, p2 % Limb, p3 % Limb, p4 % Limb>>

(***************************************************************************)
(* time.Duration                                                           *)
(***************************************************************************)
\* Go's integer division: the quotient truncated toward zero
TruncDiv(a, b) ==
    IF (a >= 0) = (b > 0) \/ a = 0
    THEN (IF a >= 0 THEN a ELSE -a) \div (IF b >= 0 THEN b ELSE -b)
    ELSE -((IF a >= 0 THEN a ELSE -a) \div (IF b >= 0 THEN b ELSE -b))

\* Duration.Microseconds(): nanoseconds to whole microseconds
Microseconds(d) == TruncDiv(d, 1000)

\* time.Duration(us) * time.Microsecond: microseconds to nanoseconds
MicrosecondsToDuration(us) == us * 1000

(***************************************************************************)
(* pkg/stats/histogram.go                                                  *)
(***************************************************************************)
\* sort.Slice(h.sorted, less) on int64 values: the non-decreasing arrangement
SortSlice(s) == SortSeq(s, LAMBDA a, b : a < b)

\* sorts is not a field of the code: it counts the executions of lines 45-50
\* since the last append.
NewLatencyHistogram ==
    [samples |-> <<>>, sorted |-> <<>>, isDirty |-> FALSE, sorts |-> 0]

\* AddSample without the stale mark
AddSampleNoDirty(h, rtt) ==
    [h EXCEPT !.samples = Append(h.samples, Microseconds(rtt)),
              !.sorts = 0]

AddSample(h, rtt) ==
    [h EXCEPT !.samples = Append(h.samples, Microseconds(rtt)),
              !.isDirty = TRUE,
              !.sorts = 0]

RECURSIVE AddSamples(_, _)
AddSamples(h, rtts) ==
    IF rtts = <<>> THEN h
    ELSE AddSamples(AddSample(h, Head(rtts)), Tail(rtts))

\* ensureSorted sorting the raw samples themselves, where the code sorts a copy
ensureSortedInPlace(h) ==
    IF ~h.isDirty /\ Len(h.sorted) > 0
    THEN h
    ELSE [h EXCEPT !.samples = SortSlice(h.samples),
                   !.sorted = SortSlice(h.samples), !.isDirty = FALSE,
                   !.sorts = h.sorts + 1]

\* ensureSorted without the early return of lines 41-43
ensureSortedAlways(h) ==
    [h EXCEPT !.sorted = SortSlice(h.samples), !.isDirty = FALSE,
              !.sorts = h.sorts + 1]

ensureSorted(h) ==
    IF ~h.isDirty /\ Len(h.sorted) > 0
    THEN h
    ELSE [h EXCEPT !.sorted = SortSlice(h.samples), !.isDirty = FALSE,
                   !.sorts = h.sorts + 1]

Count(h) == Len(h.samples)

\* Min that reads the raw samples, unsorted
MinUnsorted(h) ==
    IF Len(h.samples) = 0
    THEN [h |-> h, ret |-> 0]
    ELSE [h |-> ensureSorted(h), ret |-> MicrosecondsToDuration(h.samples[1])]

\* A query is the pair of the histogram it leaves behind and the value returned.
Min(h) ==
    IF Len(h.samples) = 0
    THEN [h |-> h, ret |-> 0]
    ELSE LET s == ensureSorted(h)
         IN  [h |-> s, ret |-> MicrosecondsToDuration(s.sorted[1])]

Max(h) ==
    IF Len(h.samples) = 0
    THEN [h |-> h, ret |-> 0]
    ELSE LET s == ensureSorted(h)
         IN  [h |-> s, ret |-> MicrosecondsToDuration(s.sorted[Len(s.sorted)])]

RECURSIVE SumOf(_)
SumOf(q) == IF q = <<>> THEN 0 ELSE Head(q) + SumOf(Tail(q))

Mean(h) ==
    IF Len(h.samples) = 0
    THEN [h |-> h, ret |-> 0]
    ELSE [h |-> h,
          ret |-> MicrosecondsToDuration(TruncDiv(SumOf(h.samples), Len(h.samples)))]

\* sqrt(x) for x >= 1: z := x, then ten times z = (z + x/z) / 2.  The float64
\* z is carried in thousandths, rounded down; for the variances of this
\* model (below 2000) the integer part of the result is that of the
\* float64 computation (Float64AgreesOn); SpecStdDev computes it in
\* float64 for any variance.
SqrtScale == 1000

RECURSIVE NewtonSteps(_, _, _)
NewtonSteps(z, xs, k) ==
    IF k = 0 THEN z ELSE NewtonSteps((z + xs \div z) \div 2, xs, k - 1)

\* int64(sqrt(float64(variance))), as int64 limbs.  sqrt(0) divides 0 by 0:
\* z is NaN, and the int64 a NaN converts to depends on the platform (nan).
SqrtToInt64(variance, nan) ==
    IF variance < 0 THEN I64(0)
    ELSE IF variance = 0 THEN nan
    ELSE I64(NewtonSteps(variance * SqrtScale, variance * SqrtScale * SqrtScale, 10)
             \div SqrtScale)

\* what int64(NaN) is: 0 (arm64), the least int64 (amd64), the greatest (riscv64)
NaNAsInt64 ==
    {<<0, 0, 0, 0>>, <<0, 0, 0, 32768>>, <<65535, 65535, 65535, 32767>>}

\* an int64 of small magnitude as an integer
I64ToInt(a) ==
    IF I64IsNeg(a)
    THEN -(I64Neg(a)[1] + I64Neg(a)[2] * Limb)
    ELSE a[1] + a[2] * Limb

StdDev(h, nan) ==
    IF Len(h.samples) < 2
    THEN [h |-> h, ret |-> 0]
    ELSE LET mean == Microseconds(Mean(h).ret)
             sumSquares == SumOf([k \in 1..Len(h.samples) |->
                                    (h.samples[k] - mean) * (h.samples[k] - mean)])
             variance == TruncDiv(sumSquares, Len(h.samples))
             stddev == SqrtToInt64(variance, nan)
         IN  [h |-> h, ret |-> I64ToInt(I64Mul(stddev, 1000))]

\* Percentile with an out-of-range p taken as the nearest valid one
PercentileClamped(h, p10) ==
    IF Len(h.samples) = 0 THEN [h |-> h, ret |-> 0]
    ELSE LET s     == ensureSorted(h)
             n     == Len(s.sorted)
             q10   == IF p10 < 0 THEN 0 ELSE IF p10 > 1000 THEN 1000 ELSE p10
             index == q10 * (n - 1)
             lower == index \div 1000
             upper == lower + 1
             fracK == index % 1000
         IN  IF upper >= n
             THEN [h |-> s, ret |-> MicrosecondsToDuration(s.sorted[lower + 1])]
             ELSE [h |-> s,
                   ret |-> MicrosecondsToDuration(
                       TruncDiv(s.sorted[lower + 1] * (1000 - fracK)
                                + s.sorted[upper + 1] * fracK, 1000))]

\* Percentile with the two interpolation weights exchanged
PercentileSwapped(h, p10) ==
    IF Len(h.samples) = 0 THEN [h |-> h, ret |-> 0]
    ELSE IF p10 < 0 \/ p10 > 1000 THEN [h |-> h, ret |-> 0]
    ELSE LET s     == ensureSorted(h)
             n     == Len(s.sorted)
             index == p10 * (n - 1)
             lower == index \div 1000
             upper == lower + 1
             fracK == index % 1000
         IN  IF upper >= n
             THEN [h |-> s, ret |-> MicrosecondsToDuration(s.sorted[lower + 1])]
             ELSE [h |-> s,
                   ret |-> MicrosecondsToDuration(
                       TruncDiv(s.sorted[lower + 1] * fracK
                                + s.sorted[upper + 1] * (1000 - fracK), 1000))]

\* Percentile(p), with p given in tenths of a percent (p = p10/10), so that
\* 50, 90, 99 and 99.9 are the integers 500, 900, 990 and 999.  The code's
\* float64 index = (p/100)*(n-1) is the rational p10*(n-1)/1000: lower is
\* its integer part and frac = fracK/1000 its fractional part, and the
\* interpolated value sorted[lower]*(1-frac) + sorted[upper]*frac is
\* truncated toward zero by int64().  (Sequences are 1-based here.)  This is
\* Percentile in exact arithmetic; PercentileFloat64 below carries the
\* rounding of every float64 operation, and returns the same durations for
\* the samples and percentiles of SpecHistogram and SpecDetect
\* (Float64AgreesOn).
Percentile(h, p10) ==
    IF Len(h.samples) = 0 THEN [h |-> h, ret |-> 0]
    ELSE IF p10 < 0 \/ p10 > 1000 THEN [h |-> h, ret |-> 0]
    ELSE LET s     == ensureSorted(h)
             n     == Len(s.sorted)
             index == p10 * (n - 1)
             lower == index \div 1000
             upper == lower + 1
             fracK == index % 1000
         IN  IF upper >= n
             THEN [h |-> s, ret |-> MicrosecondsToDuration(s.sorted[lower + 1])]
             ELSE [h |-> s,
                   ret |-> MicrosecondsToDuration(
                       TruncDiv(s.sorted[lower + 1] * (1000 - fracK)
                                + s.sorted[upper + 1] * fracK, 1000))]

P50(h) == Percentile(h, 500)

P90(h) == Percentile(h, 900)

P99(h) == Percentile(h, 990)

P999(h) == Percentile(h, 999)

\* GetStats(): the fields are evaluated in the order written
GetStats(h, nan) ==
    LET q1 == Min(h)
        q2 == Max(q1.h)
        q3 == Mean(q2.h)
        q4 == StdDev(q3.h, nan)
        q5 == P50(q4.h)
        q6 == P90(q5.h)
        q7 == P99(q6.h)
        q8 == P999(q7.h)
    IN  [h |-> q8.h,
         ret |-> [Count |-> Count(h), Min |-> q1.ret, Max |-> q2.ret,
                  Mean |-> q3.ret, StdDev |-> q4.ret, P50 |-> q5.ret,
                  P90 |-> q6.ret, P99 |-> q7.ret, P999 |-> q8.ret]]

\* the arguments Percentile is called with, in tenths of a percent: below 0,
\* 0, 25, 100 and above 100
PercentileArgs == {-1, 0, 250, 1000, 1001}

(***************************************************************************)
(* float64.  Percentile computes in float64 (histogram.go, lines 121-131): *)
(* every operation returns the float64 nearest its exact result, ties to   *)
(* the even significand.  A non-negative float64 is the pair of its        *)
(* significand m and exponent e, with value m * 2^e and m of exactly       *)
(* Precision bits (or m = 0).  Significands and exact intermediate results *)
(* are natural numbers of any size, kept as their digits in base 2^15,     *)
(* least significant first, without leading zero digits.  The integers     *)
(* that are multiplied and divided by (samples, n-1, 10, 100) are below    *)
(* 2^15.                                                                   *)
(***************************************************************************)
Digit == 32768

DigitBits == 15

\* the bits of a float64 significand
Precision == 53

RECURSIVE Big(_)
Big(n) == IF n = 0 THEN <<>> ELSE <<n % Digit>> \o Big(n \div Digit)

RECURSIVE BigToInt(_)
BigToInt(a) == IF a = <<>> THEN 0 ELSE Head(a) + Digit * BigToInt(Tail(a))

RECURSIVE BigNorm(_)
BigNorm(a) ==
    IF a # <<>> /\ a[Len(a)] = 0 THEN BigNorm(SubSeq(a, 1, Len(a) - 1)) ELSE a

RECURSIVE BigAddC(_, _, _)
BigAddC(a, b, c) ==
    IF a = <<>> /\ b = <<>> THEN Big(c)
    ELSE LET x == IF a = <<>> THEN 0 ELSE Head(a)
             y == IF b = <<>> THEN 0 ELSE Head(b)
             s == x + y + c
         IN  <<s % Digit>> \o BigAddC(IF a = <<>> THEN a ELSE Tail(a),
                                      IF b = <<>> THEN b ELSE Tail(b),
                                      s \div Digit)

BigAdd(a, b) == BigAddC(a, b, 0)

\* a - b - c for a >= b + c, digit by digit with the borrow c
RECURSIVE BigSubB(_, _, _)
BigSubB(a, b, c) ==
    IF a = <<>> THEN <<>>
    ELSE LET y == IF b = <<>> THEN 0 ELSE Head(b)
             d == Head(a) - y - c
         IN  <<IF d < 0 THEN d + Digit ELSE d>>
             \o BigSubB(Tail(a), IF b = <<>> THEN b ELSE Tail(b),
                        IF d < 0 THEN 1 ELSE 0)

BigSub(a, b) == BigNorm(BigSubB(a, b, 0))

\* a * m + c for 0 <= m < 2^15
RECURSIVE BigMulC(_, _, _)
BigMulC(a, m, c) ==
    IF a = <<>> THEN Big(c)
    ELSE LET s == Head(a) * m + c
         IN  <<s % Digit>> \o BigMulC(Tail(a), m, s \div Digit)

BigMul(a, m) == BigNorm(BigMulC(a, m, 0))

\* quotient q and remainder r of a by m, for 0 < m < 2^15
RECURSIVE BigDivRaw(_, _)
BigDivRaw(a, m) ==
    IF a = <<>> THEN [q |-> <<>>, r |-> 0]
    ELSE LET hi  == BigDivRaw(Tail(a), m)
             cur == hi.r * Digit + Head(a)
         IN  [q |-> <<cur \div m>> \o hi.q, r |-> cur % m]

BigDivMod(a, m) == [q |-> BigNorm(BigDivRaw(a, m).q), r |-> BigDivRaw(a, m).r]

BigLess(a, b) ==
    IF Len(a) # Len(b) THEN Len(a) < Len(b)
    ELSE \E k \in 1..Len(a) : a[k] < b[k] /\ \A j \in (k + 1)..Len(a) : a[j] = b[j]

RECURSIVE Pow2(_)
Pow2(k) == IF k = 0 THEN 1 ELSE 2 * Pow2(k - 1)

RECURSIVE BitLen(_)
BitLen(n) == IF n = 0 THEN 0 ELSE 1 + BitLen(n \div 2)

BigBitLen(a) ==
    IF a = <<>> THEN 0 ELSE DigitBits * (Len(a) - 1) + BitLen(a[Len(a)])

\* a * 2^k
BigShl(a, k) ==
    IF a = <<>> THEN <<>>
    ELSE [j \in 1..(k \div DigitBits) |-> 0] \o BigMul(a, Pow2(k % DigitBits))

\* a / 2^k, rounded down
BigShr(a, k) ==
    IF k \div DigitBits >= Len(a) THEN <<>>
    ELSE BigDivMod(SubSeq(a, k \div DigitBits + 1, Len(a)), Pow2(k % DigitBits)).q

FZero == [m |-> <<>>, e |-> 0]

\* the float64 nearest (n + d) * 2^e, where 0 <= d < 1 and d > 0 exactly when
\* inexact; an inexact n has more than Precision + 1 bits
RoundToFloat(n, e, inexact) ==
    LET len == BigBitLen(n)
    IN  IF n = <<>> THEN FZero
        ELSE IF len <= Precision
        THEN [m |-> BigShl(n, Precision - len), e |-> e - (Precision - len)]
        ELSE LET t    == len - Precision
                 q    == BigShr(n, t)
                 rem  == BigSub(n, BigShl(q, t))
                 half == BigShl(<<1>>, t - 1)
                 up   == \/ BigLess(half, rem)
                         \/ rem = half /\ (inexact \/ q[1] % 2 = 1)
                 q1   == IF up THEN BigAdd(q, <<1>>) ELSE q
             IN  IF BigBitLen(q1) > Precision
                 THEN [m |-> BigShr(q1, 1), e |-> e + t + 1]
                 ELSE [m |-> q1, e |-> e + t]

\* float64(n)
FFromInt(n) == RoundToFloat(Big(n), 0, FALSE)

Least(a, b) == IF a < b THEN a ELSE b

\* x + y
FAdd(x, y) ==
    IF x.m = <<>> THEN y
    ELSE IF y.m = <<>> THEN x
    ELSE LET e == Least(x.e, y.e)
         IN  RoundToFloat(BigAdd(BigShl(x.m, x.e - e), BigShl(y.m, y.e - e)), e, FALSE)

\* x - y, for x >= y
FSub(x, y) ==
    IF y.m = <<>> THEN x
    ELSE LET e == Least(x.e, y.e)
         IN  RoundToFloat(BigSub(BigShl(x.m, x.e - e), BigShl(y.m, y.e - e)), e, FALSE)

\* x * float64(a)
FMulInt(x, a) == RoundToFloat(BigMul(x.m, a), x.e, FALSE)

\* x / float64(d)
FDivInt(x, d) ==
    LET qr == BigDivMod(BigShl(x.m, DigitBits), d)
    IN  RoundToFloat(qr.q, x.e - DigitBits, qr.r # 0)

\* x * float64(a) + y in one fused operation: rounded once
FMulAddInt(x, a, y) ==
    LET prod == BigMul(x.m, a)
        e    == Least(x.e, y.e)
    IN  IF prod = <<>> THEN y
        ELSE IF y.m = <<>> THEN RoundToFloat(prod, x.e, FALSE)
        ELSE RoundToFloat(BigAdd(BigShl(prod, x.e - e), BigShl(y.m, y.e - e)), e, FALSE)

\* the largest digit q with d * q <= r, from the estimate qhat >= q
RECURSIVE DigitFit(_, _, _)
DigitFit(r, d, qhat) ==
    IF BigLess(r, BigMul(d, qhat)) THEN DigitFit(r, d, qhat - 1) ELSE qhat

\* the digit r / d for r < d * 2^15, estimated from the leading digits (the
\* estimate is at most 2 too large when the leading digit of d is 2^14 or more)
QuotientDigit(r, d) ==
    LET n  == Len(d)
        hi == IF Len(r) > n THEN r[n + 1] ELSE 0
        lo == IF Len(r) >= n THEN r[n] ELSE 0
    IN  DigitFit(r, d, Least(Digit - 1, (hi * Digit + lo) \div d[n]))

\* long division: the k + 1 leading digits q of r / d (least significant first)
\* and what is left of r
RECURSIVE DivDigits(_, _, _)
DivDigits(r, d, k) ==
    LET qd   == QuotientDigit(r, d)
        left == BigSub(r, BigMul(d, qd))
    IN  IF k = 0 THEN [q |-> <<qd>>, r |-> left]
        ELSE LET rest == DivDigits(BigShl(left, DigitBits), d, k - 1)
             IN  [q |-> rest.q \o <<qd>>, r |-> rest.r]

\* x / y, for y > 0
FDiv(x, y) ==
    IF x.m = <<>> THEN FZero
    ELSE LET n     == Len(y.m)
             shift == DigitBits * n - Precision
             qr    == DivDigits(BigShl(x.m, shift), BigShl(y.m, shift), n)
         IN  RoundToFloat(BigNorm(qr.q), x.e - y.e - DigitBits * n, qr.r # <<>>)

\* int(x), int64(x): the integer part
FTrunc(x) ==
    IF x.e >= 0 THEN BigToInt(BigShl(x.m, x.e)) ELSE BigToInt(BigShr(x.m, -x.e))

\* How the compiler evaluates a*b + c*d is its choice: the Go specification
\* lets it fuse a multiplication and the addition into one operation that
\* rounds once (as the arm64 compiler does), with either product.
Fusions == {"none", "first", "second"}

\* lines 126-131: sorted[lower] when upper = lower + 1 is past the end, else
\* int64(sorted[lower]*(1-frac) + sorted[upper]*frac), where rest is 1 - frac
InterpolateFloat64(sorted, lower, frac, rest, fused) ==
    IF lower + 1 >= Len(sorted) THEN sorted[lower + 1]
    ELSE FTrunc(CASE fused = "none" ->
                       FAdd(FMulInt(rest, sorted[lower + 1]),
                            FMulInt(frac, sorted[lower + 2]))
                  [] fused = "first" ->
                       FMulAddInt(rest, sorted[lower + 1],
                                  FMulInt(frac, sorted[lower + 2]))
                  [] fused = "second" ->
                       FMulAddInt(frac, sorted[lower + 2],
                                  FMulInt(rest, sorted[lower + 1])))

\* line 124: frac := index - float64(lower)
PercentileAtLower(sorted, index, lower, fused) ==
    InterpolateFloat64(sorted, lower, FSub(index, FFromInt(lower)),
                       FSub(FFromInt(1), FSub(index, FFromInt(lower))), fused)

\* line 122: lower := int(index)
PercentileAtIndex(sorted, index, fused) ==
    PercentileAtLower(sorted, index, FTrunc(index), fused)

\* Percentile(p) in float64, for p = p10/10 and samples from 0 to 2^15 - 1
\* microseconds; line 121: index := (p / 100.0) * float64(len(sorted)-1)
PercentileFloat64(h, p10, fused) ==
    IF Len(h.samples) = 0 THEN [h |-> h, ret |-> 0]
    ELSE IF p10 < 0 \/ p10 > 1000 THEN [h |-> h, ret |-> 0]
    ELSE [h   |-> ensureSorted(h),
          ret |-> MicrosecondsToDuration(
                    PercentileAtIndex(
                        ensureSorted(h).sorted,
                        FMulInt(FDivInt(FDivInt(FFromInt(p10), 10), 100),
                                Len(ensureSorted(h).sorted) - 1),
                        fused))]

\* sqrt(x) for x > 0, lines 212-216: z := x, then ten times z = (z + x/z) / 2
\* (z stays positive)
RECURSIVE NewtonFloat64(_, _, _)
NewtonFloat64(z, x, k) ==
    IF k = 0 \/ z.m = <<>> THEN z
    ELSE NewtonFloat64(FDivInt(FAdd(z, FDiv(x, z)), 2), x, k - 1)

\* int64(sqrt(float64(variance))) in float64, for 0 <= variance < 2^31
SqrtFloat64ToInt64(variance, nan) ==
    IF variance = 0 THEN nan
    ELSE I64(FTrunc(NewtonFloat64(FFromInt(variance), FFromInt(variance), 10)))

\* StdDev() with sqrt computed in float64
StdDevFloat64(h, nan) ==
    IF Len(h.samples) < 2
    THEN [h |-> h, ret |-> 0]
    ELSE LET mean == Microseconds(Mean(h).ret)
             sumSquares == SumOf([k \in 1..Len(h.samples) |->
                                    (h.samples[k] - mean) * (h.samples[k] - mean)])
             variance == TruncDiv(sumSquares, Len(h.samples))
             stddev == SqrtFloat64ToInt64(variance, nan)
         IN  [h |-> h, ret |-> I64ToInt(I64Mul(stddev, 1000))]

(***************************************************************************)
(* pkg/detect/bufferbloat.go                                               *)
(***************************************************************************)
\* An error value is the chain of its messages, outermost first; nil is empty.
NoError == <<>>

\* the message only (as with %v): the probe error is not carried
WrapIdleErrorFlat(e) == <<"failed to measure idle latency">>

\* fmt.Errorf("failed to measure idle latency: %w", e)
WrapIdleError(e) == <<"failed to measure idle latency">> \o e

\* errors.Unwrap
Unwrap(e) == Tail(e)

\* A float64 ratio of two whole numbers of microseconds is kept as the exact
\* fraction [num, den], den >= 1; 0.0 is 0/1.  Both operands are far below
\* 2^53, so a comparison of the float64 quotient with 1.5, 2.0, 3.0 or 5.0
\* has the outcome of the exact comparison.
ZeroRatio == [num |-> 0, den |-> 1]

\* r > a/b
RatioGreater(r, a, b) == r.num * b > a * r.den

\* the division without its guard
IncreaseRatioUnguarded(loaded, idle) ==
    [num |-> Microseconds(loaded), den |-> Microseconds(idle)]

\* the division with its operands exchanged
IncreaseRatioInverted(loaded, idle) ==
    IF Microseconds(idle) > 0
    THEN [num |-> Microseconds(idle), den |-> Microseconds(loaded)]
    ELSE ZeroRatio

\* the guarded division of Detect: loaded/idle when idle is positive in whole
\* microseconds, and the zero value of the field otherwise
IncreaseRatio(loaded, idle) ==
    IF Microseconds(idle) > 0
    THEN [num |-> Microseconds(loaded), den |-> Microseconds(idle)]
    ELSE ZeroRatio

\* BufferbloatResult{}
ZeroResult ==
    [IdleLatencyP50 |-> 0, IdleLatencyP99 |-> 0, IdleLatencyMax |-> 0,
     LoadLatencyP50 |-> 0, LoadLatencyP99 |-> 0, LoadLatencyMax |-> 0,
     P50Increase |-> ZeroRatio, P99Increase |-> ZeroRatio, MaxIncrease |-> ZeroRatio,
     IsBufferbloated |-> FALSE, Severity |-> "", Explanation |-> ""]

\* r >= a/b
RatioAtLeast(r, a, b) == r.num * b >= a * r.den

\* the severity with thresholds that are met by equality too
assessBufferbloatNonStrict(r) ==
    CASE RatioAtLeast(r.P99Increase, 5, 1) -> <<"Severe", "">>
      [] ~RatioAtLeast(r.P99Increase, 5, 1) /\ RatioAtLeast(r.P99Increase, 3, 1) ->
           <<"Moderate", "">>
      [] /\ ~RatioAtLeast(r.P99Increase, 3, 1)
         /\ (RatioAtLeast(r.P99Increase, 3, 2) \/ RatioAtLeast(r.P50Increase, 2, 1)) ->
           <<"Mild", "">>
      [] OTHER -> <<"None", "">>

assessBufferbloat(r) ==
    CASE RatioGreater(r.P99Increase, 5, 1) ->
           <<"Severe", "Latency increased dramatically under load. Buffer bloat is severe - consider optimizing buffer sizes or traffic shaping.">>
      [] ~RatioGreater(r.P99Increase, 5, 1) /\ RatioGreater(r.P99Increase, 3, 1) ->
           <<"Moderate", "Significant latency increase under load. Moderate buffer bloat detected - network may benefit from QoS improvements.">>
      [] /\ ~RatioGreater(r.P99Increase, 3, 1)
         /\ (RatioGreater(r.P99Increase, 3, 2) \/ RatioGreater(r.P50Increase, 2, 1)) ->
           <<"Mild", "Noticeable latency increase under load. Mild buffer bloat - monitor for potential issues.">>
      [] OTHER ->
           <<"None", "Latency remained stable under load. No significant buffer bloat detected.">>

\* both phases in one histogram: the loaded samples are added to the idle one
CalculateResultsShared(idleH, loaded) ==
    LET shared == AddSamples(idleH, loaded)
        idle1 == P50(shared)
        idle2 == P99(idle1.h)
        idle3 == Max(idle2.h)
        r1 == [ZeroResult EXCEPT
                 !.IdleLatencyP50 = idle1.ret,
                 !.IdleLatencyP99 = idle2.ret,
                 !.IdleLatencyMax = idle3.ret,
                 !.LoadLatencyP50 = idle1.ret,
                 !.LoadLatencyP99 = idle2.ret,
                 !.LoadLatencyMax = idle3.ret,
                 !.P50Increase = IncreaseRatio(idle1.ret, idle1.ret),
                 !.P99Increase = IncreaseRatio(idle2.ret, idle2.ret),
                 !.MaxIncrease = IncreaseRatio(idle3.ret, idle3.ret)]
        r2 == [r1 EXCEPT
                 !.IsBufferbloated = RatioGreater(r1.P50Increase, 3, 2)
                                     \/ RatioGreater(r1.P99Increase, 2, 1)]
    IN  [r2 EXCEPT !.Severity = assessBufferbloat(r2)[1],
                   !.Explanation = assessBufferbloat(r2)[2]]

\* the flag taken from the severity tag instead of its own thresholds
AssessIncreaseFlagFromSeverity(r) ==
    LET r1 == [r EXCEPT
                 !.P50Increase = IncreaseRatio(r.LoadLatencyP50, r.IdleLatencyP50),
                 !.P99Increase = IncreaseRatio(r.LoadLatencyP99, r.IdleLatencyP99),
                 !.MaxIncrease = IncreaseRatio(r.LoadLatencyMax, r.IdleLatencyMax)]
    IN  [r1 EXCEPT !.IsBufferbloated = (assessBufferbloat(r1)[1] # "None"),
                   !.Severity = assessBufferbloat(r1)[1],
                   !.Explanation = assessBufferbloat(r1)[2]]

\* the flag from the median alone: P50Increase > 1.5
AssessIncreaseFlagFromP50(r) ==
    LET r1 == [r EXCEPT
                 !.P50Increase = IncreaseRatio(r.LoadLatencyP50, r.IdleLatencyP50),
                 !.P99Increase = IncreaseRatio(r.LoadLatencyP99, r.IdleLatencyP99),
                 !.MaxIncrease = IncreaseRatio(r.LoadLatencyMax, r.IdleLatencyMax)]
        r2 == [r1 EXCEPT !.IsBufferbloated = RatioGreater(r1.P50Increase, 3, 2)]
    IN  [r2 EXCEPT !.Severity = assessBufferbloat(r2)[1],
                   !.Explanation = assessBufferbloat(r2)[2]]

\* Detect from "Calculate increase ratios" to the severity: the three guarded
\* ratios, the flag and the severity of a result whose six percentiles are set
AssessIncrease(r) ==
    LET r1 == [r EXCEPT
                 !.P50Increase = IncreaseRatio(r.LoadLatencyP50, r.IdleLatencyP50),
                 !.P99Increase = IncreaseRatio(r.LoadLatencyP99, r.IdleLatencyP99),
                 !.MaxIncrease = IncreaseRatio(r.LoadLatencyMax, r.IdleLatencyMax)]
        r2 == [r1 EXCEPT
                 !.IsBufferbloated = RatioGreater(r1.P50Increase, 3, 2)
                                     \/ RatioGreater(r1.P99Increase, 2, 1)]
    IN  [r2 EXCEPT !.Severity = assessBufferbloat(r2)[1],
                   !.Explanation = assessBufferbloat(r2)[2]]

\* Detect from "loadHist := ..." to "return result, nil": the result computed
\* from the idle histogram and the loaded-phase samples
CalculateResults(idleH, loaded) ==
    LET loadHist == AddSamples(NewLatencyHistogram, loaded)
        idle1 == P50(idleH)
        idle2 == P99(idle1.h)
        idle3 == Max(idle2.h)
        load1 == P50(loadHist)
        load2 == P99(load1.h)
        load3 == Max(load2.h)
    IN  AssessIncrease([ZeroResult EXCEPT
                          !.IdleLatencyP50 = idle1.ret,
                          !.IdleLatencyP99 = idle2.ret,
                          !.IdleLatencyMax = idle3.ret,
                          !.LoadLatencyP50 = load1.ret,
                          !.LoadLatencyP99 = load2.ret,
                          !.LoadLatencyMax = load3.ret])

\* the percentiles handed to the assessment, in nanoseconds: 0, a latency
\* below one microsecond, and whole milliseconds whose quotients fall on,
\* below and above the thresholds 1.5, 2.0, 3.0 and 5.0
AssessLatencies ==
    {0, 999, 10000000, 15000000, 20000000, 25000000, 30000000, 50000000, 90000000}

\* p50 <= p99 <= max, as the percentiles of one histogram are
PercentileTriples ==
    {t \in AssessLatencies \X AssessLatencies \X AssessLatencies :
        t[1] <= t[2] /\ t[2] <= t[3]}

\* Times, in units of 10 ms.
\* time.NewTicker(10 * time.Millisecond)
TickerPeriod == 1

\* time.Sleep(100 * time.Millisecond) // Let load start
WarmUp == 10

\* time.Sleep(50 * time.Millisecond), after each measurement
Pacing == 5

\* time.Sleep(100 * time.Millisecond) // Let background load stop
Grace == 10

(***************************************************************************)
(* The probe function handed to NewBufferbloatDetector: a call takes some  *)
(* time and then returns an ordered sequence of at most `count` RTTs, or   *)
(* an error.                                                               *)
(***************************************************************************)
\* how long one call can take: a prompt answer, or one that runs into the
\* prober's timeout
ProbeTimes == {1, MaxProbeTime}

ProbeErrors == {<<"receive failed">>}

RECURSIVE SeqsUpTo(_, _)
SeqsUpTo(S, n) ==
    IF n = 0 THEN {<<>>}
    ELSE LET shorter == SeqsUpTo(S, n - 1)
         IN  shorter \cup {Append(q, x) : q \in {t \in shorter : Len(t) = n - 1}, x \in S}

\* what probeFn(count) can return: (latencies, err)
ProbeOutcomes(count) ==
    {[latencies |-> q, err |-> NoError] : q \in SeqsUpTo(RTTs, count)}
    \cup {[latencies |-> <<>>, err |-> e] : e \in ProbeErrors}

(***************************************************************************)
(* pkg/stats/jitter.go                                                     *)
(***************************************************************************)
NewJitterCalculator ==
    [lastTimestamp |-> I64(0), interarrival |-> I64(0), jitter |-> I64(0),
     count |-> 0, initialized |-> FALSE]

\* AddSample with the sixteenth rounded to the nearest integer
JC_AddSampleRounded(c, rtt) ==
    LET rttMicros == I64(Microseconds(rtt))
    IN  IF ~c.initialized
        THEN [c EXCEPT !.lastTimestamp = rttMicros, !.initialized = TRUE]
        ELSE LET arrival == rttMicros
                 d0      == I64Sub(arrival, c.lastTimestamp)
                 d       == IF I64IsNeg(d0) THEN I64Neg(d0) ELSE d0
                 diff0   == I64Sub(d, c.jitter)
                 diff    == IF I64IsNeg(diff0) THEN I64Neg(diff0) ELSE diff0
             IN  [c EXCEPT !.jitter = I64Add(c.jitter, I64Quo(I64Add(diff, I64(8)), 16)),
                           !.lastTimestamp = arrival,
                           !.count = c.count + 1]

\* rtt is a Duration of small magnitude; the fields are int64
JC_AddSample(c, rtt) ==
    LET rttMicros == I64(Microseconds(rtt))
    IN  IF ~c.initialized
        THEN [c EXCEPT !.lastTimestamp = rttMicros, !.initialized = TRUE]
        ELSE LET arrival == rttMicros
                 d0      == I64Sub(arrival, c.lastTimestamp)
                 d       == IF I64IsNeg(d0) THEN I64Neg(d0) ELSE d0
                 diff0   == I64Sub(d, c.jitter)
                 diff    == IF I64IsNeg(diff0) THEN I64Neg(diff0) ELSE diff0
             IN  [c EXCEPT !.jitter = I64Add(c.jitter, I64Quo(diff, 16)),
                           !.lastTimestamp = arrival,
                           !.count = c.count + 1]

\* Jitter(): microseconds, int64
JC_Jitter(c) == c.jitter

\* JitterDuration(): time.Duration(jc.jitter) * time.Microsecond, int64 nanoseconds
JC_JitterDuration(c) == I64Mul(c.jitter, 1000)

JC_Count(c) == c.count

JC_Reset(c) ==
    [c EXCEPT !.lastTimestamp = I64(0), !.interarrival = I64(0),
              !.jitter = I64(0), !.count = 0, !.initialized = FALSE]

\* assessJitterMagnitude with the upper threshold at 100 ms
assessJitterMagnitudeWide(jitterMs) ==
    CASE I64Less(jitterMs, I64(1)) -> "Low"
      [] ~I64Less(jitterMs, I64(1)) /\ I64Less(jitterMs, I64(100)) -> "Moderate"
      [] OTHER -> "High"

assessJitterMagnitude(jitterMs) ==
    CASE I64Less(jitterMs, I64(1)) -> "Low"
      [] ~I64Less(jitterMs, I64(1)) /\ I64Less(jitterMs, I64(10)) -> "Moderate"
      [] OTHER -> "High"

\* Duration.Milliseconds(): int64 nanoseconds / 1e6, truncated toward zero
I64Milliseconds(d) == I64Quo(I64Quo(d, 1000), 1000)

\* CalculateJitterStats after its loop: the JitterStats of the calculator c
JitterStatsOf(c) ==
    LET jitterDur == JC_JitterDuration(c)
    IN  [Estimate  |-> jitterDur,
         Count     |-> JC_Count(c),
         Magnitude |-> assessJitterMagnitude(I64Milliseconds(jitterDur))]

\* the round-trip times given to the jitter calculator, in nanoseconds
JitterRTTs == {0, 10000000, 12000000, 14000000}

\* A slice of RTTs is kept as its runs: <<[rtt |-> r, times |-> n], ...>> is
\* r repeated n times, and so on.
RECURSIVE RunsLen(_)
RunsLen(runs) ==
    IF runs = <<>> THEN 0 ELSE Head(runs).times + RunsLen(Tail(runs))

\* rtts[k]
RECURSIVE RunsAt(_, _)
RunsAt(runs, k) ==
    IF k <= Head(runs).times THEN Head(runs).rtt
    ELSE RunsAt(Tail(runs), k - Head(runs).times)

\* the inputs of CalculateJitterStats: every sequence of at most
\* MaxJitterSamples RTTs, and one RTT followed by a long run of another
JitterInputs ==
    {[k \in 1..Len(q) |-> [rtt |-> q[k], times |-> 1]] :
        q \in SeqsUpTo(JitterRTTs, MaxJitterSamples)}
    \cup {<<[rtt |-> a, times |-> 1], [rtt |-> b, times |-> n]>> :
            a \in JitterRTTs, b \in JitterRTTs, n \in {50, MaxRun}}

(***************************************************************************)
(* Each specification runs one component; the others stand still in these  *)
(* states.                                                                 *)
(***************************************************************************)
NoQuery == [op |-> "none", ret |-> 0]

HistogramParked ==
    /\ hist = NewLatencyHistogram
    /\ hret = NoQuery
    /\ added = <<>>

JitterParked ==
    /\ jc = NewJitterCalculator
    /\ jrtts = <<>>
    /\ next = 0
    /\ jstats = <<>>

DetectParked ==
    /\ idleCount = 0
    /\ loadCount = 0
    /\ pc = "start"
    /\ sleep = 0
    /\ i = 0
    /\ idleHist = NewLatencyHistogram
    /\ loadedLatencies = <<>>
    /\ stopLoad = FALSE
    /\ result = ZeroResult
    /\ err = NoError
    /\ bg = "unborn"
    /\ bgSleep = 0
    /\ tickerLeft = -1
    /\ tickerC = 0
    /\ idleOutcome = <<>>
    /\ measured = <<>>
    /\ bgProbed = FALSE
    /\ bgLateStart = FALSE
    /\ bgAtReturn = "none"

AssessParked == assessed = <<>>

ProbeParked ==
    /\ pcount = 0
    /\ ppc = "start"
    /\ pseq = 0
    /\ psleep = 0
    /\ pdeadline = -1
    /\ pelapsed = 0
    /\ pnet = {}
    /\ psock = <<>>
    /\ presults = <<>>
    /\ pfate = <<>>
    /\ pforeign = 0

(***************************************************************************)
(* SpecHistogram: a histogram, appended to and queried in any order.       *)
(***************************************************************************)
InitHistogram ==
    /\ hist = NewLatencyHistogram
    /\ hret = NoQuery
    /\ added = <<>>
    /\ DetectParked
    /\ JitterParked
    /\ AssessParked
    /\ ProbeParked

DoAddSample ==
    /\ Len(hist.samples) < MaxSamples
    /\ \E rtt \in RTTs :
          /\ hist' = AddSample(hist, rtt)
          /\ added' = Append(added, rtt)
    /\ hret' = NoQuery
    /\ UNCHANGED histOthers

DoAddSamples ==
    \E a \in RTTs, b \in RTTs :
        /\ Len(hist.samples) + 2 <= MaxSamples
        /\ hist' = AddSamples(hist, <<a, b>>)
        /\ added' = added \o <<a, b>>
        /\ hret' = NoQuery
        /\ UNCHANGED histOthers

DoMin ==
    /\ hist' = Min(hist).h
    /\ hret' = [op |-> "Min", ret |-> Min(hist).ret]
    /\ UNCHANGED <<added, histOthers>>

DoMax ==
    /\ hist' = Max(hist).h
    /\ hret' = [op |-> "Max", ret |-> Max(hist).ret]
    /\ UNCHANGED <<added, histOthers>>

DoP50 ==
    /\ hist' = P50(hist).h
    /\ hret' = [op |-> "P50", ret |-> P50(hist).ret]
    /\ UNCHANGED <<added, histOthers>>

DoP90 ==
    /\ hist' = P90(hist).h
    /\ hret' = [op |-> "P90", ret |-> P90(hist).ret]
    /\ UNCHANGED <<added, histOthers>>

DoP99 ==
    /\ hist' = P99(hist).h
    /\ hret' = [op |-> "P99", ret |-> P99(hist).ret]
    /\ UNCHANGED <<added, histOthers>>

DoP999 ==
    /\ hist' = P999(hist).h
    /\ hret' = [op |-> "P999", ret |-> P999(hist).ret]
    /\ UNCHANGED <<added, histOthers>>

DoMean ==
    /\ hist' = Mean(hist).h
    /\ hret' = [op |-> "Mean", ret |-> Mean(hist).ret]
    /\ UNCHANGED <<added, histOthers>>

DoStdDev ==
    /\ \E nan \in NaNAsInt64 :
          /\ hist' = StdDev(hist, nan).h
          /\ hret' = [op |-> "StdDev", ret |-> StdDev(hist, nan).ret]
    /\ UNCHANGED <<added, histOthers>>

DoPercentile ==
    /\ \E p \in PercentileArgs :
          /\ hist' = Percentile(hist, p).h
          /\ hret' = [op |-> "Percentile", ret |-> Percentile(hist, p).ret, p |-> p]
    /\ UNCHANGED <<added, histOthers>>

DoGetStats ==
    /\ \E nan \in NaNAsInt64 :
          /\ hist' = GetStats(hist, nan).h
          /\ hret' = [op |-> "GetStats", ret |-> GetStats(hist, nan).ret]
    /\ UNCHANGED <<added, histOthers>>

NextHistogram ==
    \/ DoMean
    \/ DoStdDev
    \/ DoPercentile
    \/ DoGetStats
    \/ DoAddSample
    \/ DoAddSamples
    \/ DoMin
    \/ DoMax
    \/ DoP50
    \/ DoP90
    \/ DoP99
    \/ DoP999

SpecHistogram == InitHistogram /\ [][NextHistogram]_vars

(***************************************************************************)
(* SpecPercentile: a histogram of given samples, and one Percentile(p)     *)
(* query computed in float64.                                              *)
(***************************************************************************)
\* the longest sequence drawn from PercentileRTTs
MaxPercentileSamples == 2

\* sample durations, in nanoseconds: 0, 3, 100 and 200 microseconds
PercentileRTTs == {0, 3000, 100000, 200000}

\* the sample sequences: every sequence of at most MaxPercentileSamples
\* durations of PercentileRTTs, a single sample, and 100..500 microseconds
\* in order and out of order
PercentileInputs ==
    SeqsUpTo(PercentileRTTs, MaxPercentileSamples)
    \cup {<<300000>>,
          <<100000, 200000, 300000, 400000, 500000>>,
          <<400000, 100000, 500000, 300000, 200000>>}

\* the arguments p, in tenths of a percent: 0.2, 25, 29, 50, 90, 99, 99.9,
\* the ends 0 and 100, and one beyond each end
PercentilePoints10 == {-1, 0, 2, 250, 290, 500, 900, 990, 999, 1000, 1001}

InitPercentile ==
    /\ \E q \in PercentileInputs :
          /\ hist = AddSamples(NewLatencyHistogram, q)
          /\ added = q
    /\ hret = NoQuery
    /\ DetectParked
    /\ JitterParked
    /\ AssessParked
    /\ ProbeParked

\* h.Percentile(p), once
DoPercentileFloat64 ==
    /\ hret = NoQuery
    /\ \E p \in PercentilePoints10, fused \in Fusions :
          /\ hist' = PercentileFloat64(hist, p, fused).h
          /\ hret' = [op |-> "Percentile",
                      ret |-> PercentileFloat64(hist, p, fused).ret, p |-> p]
    /\ UNCHANGED <<added, histOthers>>

NextPercentile == DoPercentileFloat64

SpecPercentile == InitPercentile /\ [][NextPercentile]_vars

(***************************************************************************)
(* SpecStdDev: a histogram of given samples, and one StdDev() query with    *)
(* the square root computed in float64.                                    *)
(***************************************************************************)
\* the longest sequence drawn from StdDevRTTs
MaxStdDevSamples == 3

\* sample durations, in nanoseconds: 0, 3 and 100 microseconds, 1 and 2 ms
StdDevRTTs == {0, 3000, 100000, 1000000, 2000000}

InitStdDev ==
    /\ \E q \in SeqsUpTo(StdDevRTTs, MaxStdDevSamples) :
          /\ hist = AddSamples(NewLatencyHistogram, q)
          /\ added = q
    /\ hret = NoQuery
    /\ DetectParked
    /\ JitterParked
    /\ AssessParked
    /\ ProbeParked

\* h.StdDev(), once
DoStdDevFloat64 ==
    /\ hret = NoQuery
    /\ \E nan \in NaNAsInt64 :
          /\ hist' = StdDevFloat64(hist, nan).h
          /\ hret' = [op |-> "StdDev", ret |-> StdDevFloat64(hist, nan).ret]
    /\ UNCHANGED <<added, histOthers>>

NextStdDev == DoStdDevFloat64

SpecStdDev == InitStdDev /\ [][NextStdDev]_vars

(***************************************************************************)
(* SpecDetect: one call Detect(idleCount, loadCount).  Time is discrete, in *)
(* units of 10 ms; a step that can be taken is taken before time moves on. *)
(***************************************************************************)
InitDetect ==
    /\ idleCount \in 0..MaxIdleCount
    /\ loadCount \in 0..MaxLoadCount
    /\ pc = "start"
    /\ sleep = 0
    /\ i = 0
    /\ idleHist = NewLatencyHistogram
    /\ loadedLatencies = <<>>
    /\ stopLoad = FALSE
    /\ result = ZeroResult
    /\ err = NoError
    /\ bg = "unborn"
    /\ bgSleep = 0
    /\ tickerLeft = -1
    /\ tickerC = 0
    /\ idleOutcome = <<>>
    /\ measured = <<>>
    /\ bgProbed = FALSE
    /\ bgLateStart = FALSE
    /\ bgAtReturn = "none"
    /\ HistogramParked
    /\ JitterParked
    /\ AssessParked
    /\ ProbeParked

\* the load goroutine spawned before the idle request instead of after it
CallIdleProbeUnderLoad ==
    /\ pc = "start"
    /\ pc' = "idle"
    /\ \E t \in ProbeTimes : sleep' = t
    /\ bg' = "spawned"
    /\ UNCHANGED <<idleCount, loadCount, i, idleHist, loadedLatencies, stopLoad,
                   result, err, bgSleep, tickerLeft, tickerC, idleOutcome,
                   measured, bgProbed, bgLateStart, bgAtReturn, detectOthers>>

\* idleLatencies, err := bd.probeFn(idleCount): the call
CallIdleProbe ==
    /\ pc = "start"
    /\ pc' = "idle"
    /\ \E t \in ProbeTimes : sleep' = t
    /\ UNCHANGED <<idleCount, loadCount, i, idleHist, loadedLatencies, stopLoad,
                   result, err, bg, bgSleep, tickerLeft, tickerC, idleOutcome,
                   measured, bgProbed, bgLateStart, bgAtReturn, detectOthers>>

\* the idle request returns an error: Detect returns it wrapped
IdleProbeFails ==
    /\ pc = "idle" /\ sleep = 0
    /\ \E o \in ProbeOutcomes(idleCount) :
        /\ o.err # NoError
        /\ idleOutcome' = <<o>>
        /\ err' = WrapIdleError(o.err)
    /\ result' = ZeroResult
    /\ pc' = "failed"
    /\ UNCHANGED <<idleCount, loadCount, sleep, i, idleHist, loadedLatencies,
                   stopLoad, bg, bgSleep, tickerLeft, tickerC, measured,
                   bgProbed, bgLateStart, bgAtReturn, detectOthers>>

\* the idle request returns without error: the idle histogram is built, the
\* load goroutine is spawned and Detect sleeps to let the load start
IdleProbeReturns ==
    /\ pc = "idle" /\ sleep = 0
    /\ \E o \in ProbeOutcomes(idleCount) :
        /\ o.err = NoError
        /\ idleOutcome' = <<o>>
        /\ idleHist' = AddSamples(NewLatencyHistogram, o.latencies)
    /\ loadedLatencies' = <<>>
    /\ stopLoad' = FALSE
    /\ bg' = "spawned"
    /\ pc' = "warmup"
    /\ sleep' = WarmUp
    /\ UNCHANGED <<idleCount, loadCount, i, result, err, bgSleep, tickerLeft,
                   tickerC, measured, bgProbed, bgLateStart, bgAtReturn, detectOthers>>

\* time.Sleep(100ms) is over: Detect enters the measurement loop
WarmUpOver ==
    /\ pc = "warmup" /\ sleep = 0
    /\ pc' = "loop"
    /\ i' = 0
    /\ UNCHANGED <<idleCount, loadCount, sleep, idleHist, loadedLatencies,
                   stopLoad, result, err, bg, bgSleep, tickerLeft, tickerC,
                   idleOutcome, measured, bgProbed, bgLateStart, bgAtReturn, detectOthers>>

\* i < loadCount: latencies, err := bd.probeFn(1), the call
CallMeasureProbe ==
    /\ pc = "loop" /\ i < loadCount
    /\ pc' = "measure"
    /\ \E t \in ProbeTimes : sleep' = t
    /\ UNCHANGED <<idleCount, loadCount, i, idleHist, loadedLatencies, stopLoad,
                   result, err, bg, bgSleep, tickerLeft, tickerC, idleOutcome,
                   measured, bgProbed, bgLateStart, bgAtReturn, detectOthers>>

\* the measurement request returns: its first RTT is kept when it has one
\* and no error, and Detect sleeps 50 ms
MeasureProbeReturns ==
    /\ pc = "measure" /\ sleep = 0
    /\ \E o \in ProbeOutcomes(1) :
        /\ measured' = Append(measured, o)
        /\ loadedLatencies' =
              IF o.err = NoError /\ Len(o.latencies) > 0
              THEN Append(loadedLatencies, o.latencies[1])
              ELSE loadedLatencies
    /\ pc' = "pace"
    /\ sleep' = Pacing
    /\ UNCHANGED <<idleCount, loadCount, i, idleHist, stopLoad, result, err, bg,
                   bgSleep, tickerLeft, tickerC, idleOutcome, bgProbed,
                   bgLateStart, bgAtReturn, detectOthers>>

\* time.Sleep(50ms) is over: i++
PacingOver ==
    /\ pc = "pace" /\ sleep = 0
    /\ i' = i + 1
    /\ pc' = "loop"
    /\ UNCHANGED <<idleCount, loadCount, sleep, idleHist, loadedLatencies,
                   stopLoad, result, err, bg, bgSleep, tickerLeft, tickerC,
                   idleOutcome, measured, bgProbed, bgLateStart, bgAtReturn, detectOthers>>

\* the stop signal sent only once the goroutine has been seen to exit
CloseStopLoadAfterJoin ==
    /\ pc = "loop" /\ i >= loadCount
    /\ bg = "exited"
    /\ stopLoad' = TRUE
    /\ pc' = "grace"
    /\ sleep' = Grace
    /\ UNCHANGED <<idleCount, loadCount, i, idleHist, loadedLatencies, result,
                   err, bg, bgSleep, tickerLeft, tickerC, idleOutcome, measured,
                   bgProbed, bgLateStart, bgAtReturn, detectOthers>>

\* i >= loadCount: close(stopLoad), then time.Sleep(100ms)
CloseStopLoad ==
    /\ pc = "loop" /\ i >= loadCount
    /\ stopLoad' = TRUE
    /\ pc' = "grace"
    /\ sleep' = Grace
    /\ UNCHANGED <<idleCount, loadCount, i, idleHist, loadedLatencies, result,
                   err, bg, bgSleep, tickerLeft, tickerC, idleOutcome, measured,
                   bgProbed, bgLateStart, bgAtReturn, detectOthers>>

\* the grace sleep is over: the histograms are read, the result is computed
\* and Detect returns (result, nil)
ReturnResult ==
    /\ pc = "grace" /\ sleep = 0
    /\ result' = CalculateResults(idleHist, loadedLatencies)
    /\ idleHist' = Max(P99(P50(idleHist).h).h).h
    /\ err' = NoError
    /\ pc' = "done"
    /\ bgAtReturn' = bg
    /\ UNCHANGED <<idleCount, loadCount, sleep, i, loadedLatencies, stopLoad, bg,
                   bgSleep, tickerLeft, tickerC, idleOutcome, measured, bgProbed,
                   bgLateStart, detectOthers>>

\* the goroutine starts to run: ticker := time.NewTicker(10ms)
LoadStarts ==
    /\ bg = "spawned"
    /\ bg' = "select"
    /\ tickerLeft' = TickerPeriod
    /\ tickerC' = 0
    /\ UNCHANGED <<idleCount, loadCount, pc, sleep, i, idleHist, loadedLatencies,
                   stopLoad, result, err, bgSleep, idleOutcome, measured,
                   bgProbed, bgLateStart, bgAtReturn, detectOthers>>

\* the runtime ticker sends on ticker.C; the tick is dropped when one waits
TickerFires ==
    /\ tickerLeft = 0
    /\ tickerC' = 1
    /\ tickerLeft' = TickerPeriod
    /\ UNCHANGED <<idleCount, loadCount, pc, sleep, i, idleHist, loadedLatencies,
                   stopLoad, result, err, bg, bgSleep, idleOutcome, measured,
                   bgProbed, bgLateStart, bgAtReturn, detectOthers>>

\* a select that looks at ticker.C first: <-stopLoad only when no tick waits
LoadSelectsStopAfterTick ==
    /\ bg = "select" /\ stopLoad /\ tickerC = 0
    /\ bg' = "exited"
    /\ tickerLeft' = -1
    /\ UNCHANGED <<idleCount, loadCount, pc, sleep, i, idleHist, loadedLatencies,
                   stopLoad, result, err, bgSleep, tickerC, idleOutcome,
                   measured, bgProbed, bgLateStart, bgAtReturn, detectOthers>>

\* select takes case <-stopLoad: return, and the deferred ticker.Stop()
LoadSelectsStop ==
    /\ bg = "select" /\ stopLoad
    /\ bg' = "exited"
    /\ tickerLeft' = -1
    /\ UNCHANGED <<idleCount, loadCount, pc, sleep, i, idleHist, loadedLatencies,
                   stopLoad, result, err, bgSleep, tickerC, idleOutcome,
                   measured, bgProbed, bgLateStart, bgAtReturn, detectOthers>>

\* select takes case <-ticker.C and the goroutine calls bd.probeFn(1).  When
\* both channels are ready, Go's select takes either case.
LoadSelectsTick ==
    /\ bg = "select" /\ tickerC = 1
    /\ tickerC' = 0
    /\ bg' = "probing"
    /\ \E t \in ProbeTimes : bgSleep' = t
    /\ bgProbed' = TRUE
    /\ bgLateStart' = (bgLateStart \/ stopLoad)
    /\ UNCHANGED <<idleCount, loadCount, pc, sleep, i, idleHist, loadedLatencies,
                   stopLoad, result, err, tickerLeft, idleOutcome, measured,
                   bgAtReturn, detectOthers>>

\* the goroutine's probe call returns and its sample is kept with the measured ones
LoadProbeReturnsKeeps ==
    /\ bg = "probing" /\ bgSleep = 0
    /\ \E o \in ProbeOutcomes(1) :
          loadedLatencies' =
              IF o.err = NoError /\ Len(o.latencies) > 0
              THEN Append(loadedLatencies, o.latencies[1])
              ELSE loadedLatencies
    /\ bg' = "select"
    /\ UNCHANGED <<idleCount, loadCount, pc, sleep, i, idleHist,
                   stopLoad, result, err, bgSleep, tickerLeft, tickerC,
                   idleOutcome, measured, bgProbed, bgLateStart, bgAtReturn, detectOthers>>

\* the goroutine's probe call returns; whatever it returns is dropped
LoadProbeReturns ==
    /\ bg = "probing" /\ bgSleep = 0
    /\ \E o \in ProbeOutcomes(1) : TRUE
    /\ bg' = "select"
    /\ UNCHANGED <<idleCount, loadCount, pc, sleep, i, idleHist, loadedLatencies,
                   stopLoad, result, err, bgSleep, tickerLeft, tickerC,
                   idleOutcome, measured, bgProbed, bgLateStart, bgAtReturn, detectOthers>>

\* Detect is blocked in a probe call or a sleep
DetectBlocked == pc \in {"idle", "warmup", "measure", "pace", "grace"}

\* some step other than the passing of time can be taken now
StepReady ==
    \/ pc \in {"start", "loop"}
    \/ DetectBlocked /\ sleep = 0
    \/ bg = "spawned"
    \/ bg = "select" /\ (stopLoad \/ tickerC = 1)
    \/ bg = "probing" /\ bgSleep = 0
    \/ tickerLeft = 0

\* 10 ms pass
TimePasses ==
    /\ ~StepReady
    /\ DetectBlocked \/ bg = "probing" \/ tickerLeft > 0
    /\ sleep' = IF DetectBlocked THEN sleep - 1 ELSE sleep
    /\ bgSleep' = IF bg = "probing" THEN bgSleep - 1 ELSE bgSleep
    /\ tickerLeft' = IF tickerLeft > 0 THEN tickerLeft - 1 ELSE tickerLeft
    /\ UNCHANGED <<idleCount, loadCount, pc, i, idleHist, loadedLatencies,
                   stopLoad, result, err, bg, tickerC, idleOutcome, measured,
                   bgProbed, bgLateStart, bgAtReturn, detectOthers>>

NextDetect ==
    \/ CallIdleProbe
    \/ IdleProbeFails
    \/ IdleProbeReturns
    \/ WarmUpOver
    \/ CallMeasureProbe
    \/ MeasureProbeReturns
    \/ PacingOver
    \/ CloseStopLoad
    \/ ReturnResult
    \/ LoadStarts
    \/ TickerFires
    \/ LoadSelectsStop
    \/ LoadSelectsTick
    \/ LoadProbeReturns
    \/ TimePasses

SpecDetect == InitDetect /\ [][NextDetect]_vars

\* Every step of Detect and of the load goroutine before the return statement
NextBeforeReturn ==
    \/ CallIdleProbe
    \/ IdleProbeFails
    \/ IdleProbeReturns
    \/ WarmUpOver
    \/ CallMeasureProbe
    \/ MeasureProbeReturns
    \/ PacingOver
    \/ CloseStopLoad
    \/ LoadStarts
    \/ TickerFires
    \/ LoadSelectsStop
    \/ LoadSelectsTick
    \/ LoadProbeReturns
    \/ TimePasses

\* The grace sleep of line 87 is over: ReturnResult can be taken
ReturnReady == pc = "grace" /\ sleep = 0

\* The same call where something always happens while something can: a
\* runnable goroutine is run, a probe call in progress returns, clocks
\* advance, and Detect, once its last sleep is over, computes its result and
\* returns. The last conjunct is weak fairness of ReturnResult written out:
\* ReturnResult is enabled exactly when ReturnReady holds, and it is the only
\* step from "grace" to "done".
SpecDetectLive ==
    /\ InitDetect
    /\ [][NextDetect]_vars
    /\ WF_vars(NextBeforeReturn)
    /\ ([]<>(~ReturnReady) \/ []<><<pc = "grace" /\ pc' = "done">>_vars)

\* SpecDetectLive where, in addition, the select of line 62 does not pass
\* over a ready <-stopLoad for ever: Go's select takes one of its ready cases
\* by a uniform pseudo-random choice, so a case that is ready at infinitely
\* many executions of the select is taken at one of them.
SpecLoadLive ==
    /\ SpecDetectLive
    /\ SF_vars(LoadSelectsStop)

(***************************************************************************)
(* SpecJitter: a JitterCalculator fed one sample at a time and reset, and  *)
(* calls of CalculateJitterStats.                                          *)
(***************************************************************************)
InitJitter ==
    /\ jc = NewJitterCalculator
    /\ jrtts = <<>>
    /\ next = 0
    /\ jstats = <<>>
    /\ HistogramParked
    /\ DetectParked
    /\ AssessParked
    /\ ProbeParked

\* jc.AddSample(rtt), by the owner of the calculator
DoJitterAddSample ==
    /\ next = 0
    /\ jc.count < MaxJitterSamples - 1
    /\ \E rtt \in JitterRTTs : jc' = JC_AddSample(jc, rtt)
    /\ jstats' = <<>>
    /\ UNCHANGED <<jrtts, next, jitterOthers>>

\* jc.Reset()
DoJitterReset ==
    /\ next = 0
    /\ jc' = JC_Reset(jc)
    /\ jstats' = <<>>
    /\ UNCHANGED <<jrtts, next, jitterOthers>>

\* CalculateJitterStats(rtts) is called: jc := NewJitterCalculator()
CalculateJitterStats ==
    /\ next = 0
    /\ \E input \in JitterInputs : jrtts' = input
    /\ jc' = NewJitterCalculator
    /\ next' = 1
    /\ jstats' = <<>>
    /\ UNCHANGED <<jitterOthers>>

\* one turn of its loop: jc.AddSample(rtt)
CalculateJitterStatsAdds ==
    /\ next >= 1 /\ next <= RunsLen(jrtts)
    /\ jc' = JC_AddSample(jc, RunsAt(jrtts, next))
    /\ next' = next + 1
    /\ UNCHANGED <<jrtts, jstats, jitterOthers>>

\* the loop is over: the JitterStats are returned
CalculateJitterStatsReturns ==
    /\ next >= 1 /\ next > RunsLen(jrtts)
    /\ jstats' = <<JitterStatsOf(jc)>>
    /\ jrtts' = <<>>
    /\ next' = 0
    /\ UNCHANGED <<jc, jitterOthers>>

NextJitter ==
    \/ DoJitterAddSample
    \/ DoJitterReset
    \/ CalculateJitterStats
    \/ CalculateJitterStatsAdds
    \/ CalculateJitterStatsReturns

SpecJitter == InitJitter /\ [][NextJitter]_vars

(***************************************************************************)
(* SpecAssess: the assessment Detect makes of six percentiles, for every   *)
(* idle and loaded triple p50 <= p99 <= max of AssessLatencies.            *)
(***************************************************************************)
InitAssess ==
    /\ assessed = <<>>
    /\ HistogramParked
    /\ DetectParked
    /\ JitterParked
    /\ ProbeParked

\* the assessment of one result, once per behaviour
DoAssess ==
    /\ assessed = <<>>
    /\ \E idle \in PercentileTriples, load \in PercentileTriples :
          assessed' = <<AssessIncrease([ZeroResult EXCEPT
                                          !.IdleLatencyP50 = idle[1],
                                          !.IdleLatencyP99 = idle[2],
                                          !.IdleLatencyMax = idle[3],
                                          !.LoadLatencyP50 = load[1],
                                          !.LoadLatencyP99 = load[2],
                                          !.LoadLatencyMax = load[3]])>>
    /\ UNCHANGED assessOthers

NextAssess == DoAssess

SpecAssess == InitAssess /\ [][NextAssess]_vars

(***************************************************************************)
(* pkg/probe/icmp.go, pkg/probe/udp.go: one Probe() call.  Time is in      *)
(* seconds.  The network gives the echo of every request written a fate:   *)
(* it is lost, or it reaches the prober's socket after some delay, which   *)
(* may be longer than the timeout.  A packet that reaches the socket waits *)
(* in its receive queue until a read takes it.                             *)
(***************************************************************************)
\* config.Timeout as NewICMPProber and NewUDPProber default it: 3 * time.Second
ProbeTimeout == 3

\* config.Interval as they default it: 1 * time.Second
ProbeInterval == 1

\* the largest config.Count
MaxCount == 2

\* the longest an echo takes to come back
MaxEchoDelay == 5

\* how many packets of other senders reach the ICMP socket
MaxForeign == 1

EchoLost == [kind |-> "lost", delay |-> 0]

EchoUnsent == [kind |-> "unsent", delay |-> 0]

\* what can become of the echo of a request that was written
EchoFates == {EchoLost} \cup {[kind |-> "echo", delay |-> d] : d \in 1..MaxEchoDelay}

\* the echo reply to the request (id, seq), as it travels
EchoInFlight(id, seq, fate) ==
    IF fate.kind = "echo"
    THEN {[id |-> id, seq |-> seq, left |-> fate.delay]}
    ELSE {}

\* the result sendProbe returns when WriteTo / Write fails
SendFailed(seq) ==
    [Sequence |-> seq, RTT |-> 0, Success |-> FALSE, Error |-> "send failed",
     reply |-> <<>>, waited |-> 0]

\* the result sendProbe returns when ReadFrom / Read fails
ReceiveFailed(seq, waited) ==
    [Sequence |-> seq, RTT |-> 0, Success |-> FALSE, Error |-> "receive failed",
     reply |-> <<>>, waited |-> waited]

\* the result sendProbe returns when its read returned the packet pkt
ProbeSucceeded(seq, rtt, pkt) ==
    [Sequence |-> seq, RTT |-> rtt, Success |-> TRUE, Error |-> "",
     reply |-> <<pkt>>, waited |-> rtt]

\* results = append(results, result), then the next iteration of the loop of
\* Probe (which starts with time.Sleep(Interval)) or return results, nil
AppendResult(r) ==
    /\ presults' = Append(presults, r)
    /\ IF pseq < pcount
       THEN /\ ppc' = "sleep"
            /\ psleep' = ProbeInterval
            /\ pseq' = pseq + 1
       ELSE /\ ppc' = "done"
            /\ UNCHANGED <<psleep, pseq>>

\* the arrangements of a set of packets in a sequence
Arrangements(S) ==
    {q \in [1..Cardinality(S) -> S] :
        \A a \in 1..Cardinality(S), b \in 1..Cardinality(S) : a # b => q[a] # q[b]}

Delivered(pkt) == [id |-> pkt.id, seq |-> pkt.seq]

InitProbe ==
    /\ pcount \in 1..MaxCount
    /\ ppc = "start"
    /\ pseq = 0
    /\ psleep = 0
    /\ pdeadline = -1
    /\ pelapsed = 0
    /\ pnet = {}
    /\ psock = <<>>
    /\ presults = <<>>
    /\ pfate = <<>>
    /\ pforeign = 0
    /\ HistogramParked
    /\ DetectParked
    /\ JitterParked
    /\ AssessParked

\* the address does not resolve, or the socket cannot be opened (for UDP: or
\* SetReadDeadline fails): Probe returns nil and the error
ProbeSetupFails ==
    /\ ppc = "start"
    /\ ppc' = "failed"
    /\ UNCHANGED <<pcount, pseq, psleep, pdeadline, pelapsed, pnet, psock,
                   presults, pfate, pforeign, probeOthers>>

\* the write of the request fails: sendProbe returns at once
ProbeSendFails ==
    /\ ppc = "send"
    /\ pfate' = Append(pfate, EchoUnsent)
    /\ AppendResult(SendFailed(pseq))
    /\ UNCHANGED <<pcount, pdeadline, pelapsed, pnet, psock, pforeign, probeOthers>>

\* the read in progress returns the oldest packet of the receive queue,
\* whatever it is: RTT = receiveTime - sendTime, Success = true
ProbeReadReturns ==
    /\ ppc = "recv"
    /\ psock # <<>>
    /\ psock' = Tail(psock)
    /\ AppendResult(ProbeSucceeded(pseq, pelapsed, Head(psock)))
    /\ UNCHANGED <<pcount, pdeadline, pelapsed, pnet, pfate, pforeign, probeOthers>>

\* the read deadline is reached while the read is in progress
ProbeReadTimesOut ==
    /\ ppc = "recv"
    /\ pdeadline = 0
    /\ AppendResult(ReceiveFailed(pseq, pelapsed))
    /\ UNCHANGED <<pcount, pdeadline, pelapsed, pnet, psock, pfate, pforeign,
                   probeOthers>>

\* time.Sleep(Interval) is over: sendProbe is called for the next sequence number
ProbeSleepOver ==
    /\ ppc = "sleep"
    /\ psleep = 0
    /\ ppc' = "send"
    /\ UNCHANGED <<pcount, pseq, psleep, pdeadline, pelapsed, pnet, psock,
                   presults, pfate, pforeign, probeOthers>>

\* one second passes while Probe is blocked in a read with nothing to read
\* or in its sleep; the packets due reach the socket
ProbeTimePasses ==
    /\ \/ ppc = "recv" /\ psock = <<>> /\ pdeadline > 0
       \/ ppc = "sleep" /\ psleep > 0
    /\ psleep' = IF psleep > 0 THEN psleep - 1 ELSE psleep
    /\ pdeadline' = IF pdeadline > 0 THEN pdeadline - 1 ELSE pdeadline
    /\ pelapsed' = IF ppc = "recv" THEN pelapsed + 1 ELSE pelapsed
    /\ pnet' = {[pkt EXCEPT !.left = pkt.left - 1] : pkt \in {q \in pnet : q.left > 1}}
    /\ \E q \in Arrangements({Delivered(pkt) : pkt \in {a \in pnet : a.left = 1}}) :
          psock' = psock \o q
    /\ UNCHANGED <<pcount, ppc, pseq, presults, pfate, pforeign, probeOthers>>

(***************************************************************************)
(* SpecICMP: ICMPProber.Probe.  The socket is a raw ICMP socket: it is     *)
(* handed every ICMP packet the host receives, those of other senders      *)
(* included.                                                               *)
(***************************************************************************)
\* ListenPacket succeeded: the first iteration of the loop
ICMP_ProbeStarts ==
    /\ ppc = "start"
    /\ ppc' = "send"
    /\ pseq' = 1
    /\ UNCHANGED <<pcount, psleep, pdeadline, pelapsed, pnet, psock, presults,
                   pfate, pforeign, probeOthers>>

\* sendProbe, lines 85-118: the echo request (PacketID, sequence) is written,
\* sendTime is taken, the read deadline is set Timeout ahead and ReadFrom
\* is called
ICMP_Send ==
    /\ ppc = "send"
    /\ \E fate \in EchoFates :
          /\ pfate' = Append(pfate, fate)
          /\ pnet' = pnet \cup EchoInFlight("prober", pseq, fate)
    /\ pelapsed' = 0
    /\ pdeadline' = ProbeTimeout
    /\ ppc' = "recv"
    /\ UNCHANGED <<pcount, pseq, psleep, psock, presults, pforeign, probeOthers>>

\* an ICMP packet of another sender (an echo reply to another process) reaches
\* the socket
ICMP_ForeignPacket ==
    /\ ppc \in {"send", "recv", "sleep"}
    /\ pforeign < MaxForeign
    /\ pforeign' = pforeign + 1
    /\ \E s \in 1..MaxCount : psock' = Append(psock, [id |-> "other", seq |-> s])
    /\ UNCHANGED <<pcount, ppc, pseq, psleep, pdeadline, pelapsed, pnet,
                   presults, pfate, probeOthers>>

NextICMP ==
    \/ ProbeSetupFails
    \/ ICMP_ProbeStarts
    \/ ProbeSendFails
    \/ ICMP_Send
    \/ ProbeReadReturns
    \/ ProbeReadTimesOut
    \/ ProbeSleepOver
    \/ ICMP_ForeignPacket
    \/ ProbeTimePasses

SpecICMP == InitProbe /\ [][NextICMP]_vars

(***************************************************************************)
(* SpecUDP: UDPProber.Probe.  The socket is connected to the target: it    *)
(* receives what the target sends back, and nothing else.                  *)
(***************************************************************************)
\* DialUDP succeeded; one read deadline is set for the whole call,
\* Count * (Interval + Timeout) ahead; then the first iteration of the loop
UDP_ProbeStarts ==
    /\ ppc = "start"
    /\ pdeadline' = pcount * (ProbeInterval + ProbeTimeout)
    /\ ppc' = "send"
    /\ pseq' = 1
    /\ UNCHANGED <<pcount, psleep, pelapsed, pnet, psock, presults, pfate,
                   pforeign, probeOthers>>

\* sendProbe, lines 95-114, before the read deadline: the payload is written,
\* sendTime is taken and Read is called
UDP_Send ==
    /\ ppc = "send"
    /\ pdeadline > 0
    /\ \E fate \in EchoFates :
          /\ pfate' = Append(pfate, fate)
          /\ pnet' = pnet \cup EchoInFlight("prober", pseq, fate)
    /\ pelapsed' = 0
    /\ ppc' = "recv"
    /\ UNCHANGED <<pcount, pseq, psleep, pdeadline, psock, presults, pforeign,
                   probeOthers>>

\* sendProbe once the read deadline has passed: the payload is written, and
\* Read fails at once, whatever the receive queue holds
UDP_SendPastDeadline ==
    /\ ppc = "send"
    /\ pdeadline = 0
    /\ \E fate \in EchoFates :
          /\ pfate' = Append(pfate, fate)
          /\ pnet' = pnet \cup EchoInFlight("prober", pseq, fate)
    /\ pelapsed' = 0
    /\ AppendResult(ReceiveFailed(pseq, 0))
    /\ UNCHANGED <<pcount, pdeadline, psock, pforeign, probeOthers>>

NextUDP ==
    \/ ProbeSetupFails
    \/ UDP_ProbeStarts
    \/ ProbeSendFails
    \/ UDP_Send
    \/ UDP_SendPastDeadline
    \/ ProbeReadReturns
    \/ ProbeReadTimesOut
    \/ ProbeSleepOver
    \/ ProbeTimePasses

SpecUDP == InitProbe /\ [][NextUDP]_vars

(***************************************************************************)
(* Properties of Detect.                                                   *)
(***************************************************************************)
\* Detect has returned
Returned == pc \in {"done", "failed"}

\* the idle-phase request has returned, and without error
IdleMeasured == idleOutcome # <<>> /\ idleOutcome[1].err = NoError

\* the samples AddSamples stores for a sequence of RTTs
InMicroseconds(rtts) == [k \in 1..Len(rtts) |-> Microseconds(rtts[k])]

\* a measurement request whose sample Detect keeps
Succeeded(o) == o.err = NoError /\ Len(o.latencies) > 0

\* the RTTs of the successful requests of a log, in request order
RECURSIVE SuccessfulRTTs(_)
SuccessfulRTTs(log) ==
    IF log = <<>> THEN <<>>
    ELSE IF Succeeded(Head(log))
         THEN <<Head(log).latencies[1]>> \o SuccessfulRTTs(Tail(log))
         ELSE SuccessfulRTTs(Tail(log))

\* C1: when Detect computes the final percentiles and ratios and returns,
\* after close(stopLoad), no probe call of the load goroutine is in flight.
C1_NoProbeInFlightAtReturn ==
    pc = "done" => bgAtReturn # "probing"

\* C5: an idle-phase request that yields no samples (and no error) makes
\* Detect return an error.
C5_EmptyIdleIsAnError ==
    (Returned /\ IdleMeasured /\ idleOutcome[1].latencies = <<>>) => err # NoError

\* C6: when the idle-phase request returns an error, Detect returns an error
\* that wraps it, having issued that one request only: the load goroutine was
\* never started and no loaded-phase probe was issued.
C6_IdleErrorAborts ==
    (idleOutcome # <<>> /\ idleOutcome[1].err # NoError) =>
        /\ pc = "failed"
        /\ err # NoError
        /\ Unwrap(err) = idleOutcome[1].err
        /\ result = ZeroResult
        /\ bg = "unborn"
        /\ ~bgProbed
        /\ measured = <<>>
        /\ loadedLatencies = <<>>

\* Detect has returned the wrapped error of a failed idle request
C6_Witness ==
    /\ pc = "failed"
    /\ idleOutcome # <<>>
    /\ idleOutcome[1].err \in ProbeErrors
    /\ err = <<"failed to measure idle latency">> \o idleOutcome[1].err

\* C7: the load goroutine issues no probe before the idle-phase request has
\* returned, and starts no probe after close(stopLoad).
C7_LoadOnlyWhileMeasuring ==
    /\ bgProbed => idleOutcome # <<>>
    /\ ~bgLateStart

\* C8: once the load goroutine exists or a loaded-phase probe is issued, the
\* idle request has returned and the idle histogram holds exactly its
\* samples, for good; the idle p50/p99/max of the result are those of the
\* idle-phase samples alone.
C8_IdleFrozenFirst ==
    /\ (bg # "unborn" \/ measured # <<>> \/ pc \in {"measure", "pace", "loop", "grace", "done"}) =>
          /\ IdleMeasured
          /\ idleHist.samples = InMicroseconds(idleOutcome[1].latencies)
    /\ pc = "done" =>
          LET idleOnly == AddSamples(NewLatencyHistogram, idleOutcome[1].latencies)
          IN  /\ result.IdleLatencyP50 = P50(idleOnly).ret
              /\ result.IdleLatencyP99 = P99(idleOnly).ret
              /\ result.IdleLatencyMax = Max(idleOnly).ret

\* a result whose loaded samples differ from the idle ones
C8_Witness ==
    /\ pc = "done"
    /\ Len(idleOutcome[1].latencies) = 1
    /\ Len(loadedLatencies) = 2
    /\ bgProbed
    /\ result.IdleLatencyMax = 1000
    /\ result.LoadLatencyMax = 7000

\* C9: Detect issues loadCount measurement requests, one after the other; a
\* request that fails or returns no sample is skipped and Detect still
\* returns a result; the loaded samples are the RTTs of the successful
\* requests in request order, whatever the load goroutine obtained.
C9_LoadedSamplesInOrder ==
    /\ loadedLatencies = SuccessfulRTTs(measured)
    /\ Len(measured) + (IF pc = "measure" THEN 1 ELSE 0) <= loadCount
    /\ pc = "measure" => Len(measured) = i
    /\ (IdleMeasured /\ Returned) =>
          /\ pc = "done"
          /\ err = NoError
          /\ Len(measured) = loadCount
          /\ result.LoadLatencyMax =
                Max(AddSamples(NewLatencyHistogram, SuccessfulRTTs(measured))).ret

\* a failed request, then a successful one, while the goroutine probed too
C9_Witness ==
    /\ pc = "done"
    /\ loadCount = 2
    /\ Len(measured) = 2
    /\ measured[1].err # NoError
    /\ Succeeded(measured[2])
    /\ loadedLatencies = <<7000>>
    /\ bgProbed

\* C10: a Detect call that measured the idle phase and has loadCount = 0, or
\* whose loaded-phase requests all failed, returns a nil error and a result
\* with loaded p50, p99 and max zero and the three ratios zero, none of them
\* a division by zero.
C10_NoLoadedSamples ==
    (/\ Returned
     /\ IdleMeasured
     /\ loadCount = 0 \/ \A k \in 1..Len(measured) : ~Succeeded(measured[k])) =>
        /\ pc = "done"
        /\ err = NoError
        /\ loadedLatencies = <<>>
        /\ result.LoadLatencyP50 = 0
        /\ result.LoadLatencyP99 = 0
        /\ result.LoadLatencyMax = 0
        /\ \A r \in {result.P50Increase, result.P99Increase, result.MaxIncrease} :
              r.den >= 1 /\ r.num = 0

\* Detect(1, 0) has returned after a positive idle sample
C10_Witness ==
    /\ pc = "done"
    /\ loadCount = 0
    /\ result.IdleLatencyP50 > 0
    /\ result.P50Increase = ZeroRatio
    /\ err = NoError

\* C20: with probe requests that all return, every Detect call returns, and
\* no phase of it (the idle request, the warm-up, a measurement request, a
\* pacing delay, the teardown) lasts forever.
C20_DetectReturns ==
    /\ <>Returned
    /\ \A p \in {"idle", "warmup", "measure", "pace", "grace"} : (pc = p) ~> (pc # p)

\* Detect has returned after MaxLoadCount measurement requests, and the load
\* goroutine has exited
C20_Witness ==
    /\ pc = "done"
    /\ loadCount = MaxLoadCount
    /\ Len(measured) = MaxLoadCount
    /\ i = MaxLoadCount
    /\ bg = "exited"

(***************************************************************************)
(* Properties of the assessment.                                           *)
(***************************************************************************)
\* the ratio q is loaded/idle when idle is positive in whole microseconds,
\* and zero otherwise; its denominator is never zero
RECURSIVE GCD(_, _)
GCD(a, b) == IF b = 0 THEN a ELSE GCD(b, a % b)

\* the fraction a/b (b >= 1) in lowest terms
Lowest(a, b) == [num |-> a \div GCD(a, b), den |-> b \div GCD(a, b)]

RatioIs(q, loaded, idle) ==
    /\ q.den >= 1
    /\ IF Microseconds(idle) > 0
       THEN Lowest(q.num, q.den) = Lowest(Microseconds(loaded), Microseconds(idle))
       ELSE q.num = 0

\* C11: each of P50Increase, P99Increase and MaxIncrease is loaded/idle when
\* the idle value is strictly positive in whole microseconds and zero
\* otherwise, and no ratio has a zero denominator.
C11_RatiosGuarded ==
    assessed # <<>> =>
        LET r == assessed[1]
        IN  /\ RatioIs(r.P50Increase, r.LoadLatencyP50, r.IdleLatencyP50)
            /\ RatioIs(r.P99Increase, r.LoadLatencyP99, r.IdleLatencyP99)
            /\ RatioIs(r.MaxIncrease, r.LoadLatencyMax, r.IdleLatencyMax)

\* an idle p50 below one microsecond beside a loaded p50 of 10 ms gives the
\* zero ratio, while the p99 ratio 25 ms / 10 ms is 5/2
C11_Witness ==
    /\ assessed # <<>>
    /\ assessed[1].IdleLatencyP50 = 999
    /\ assessed[1].LoadLatencyP50 = 10000000
    /\ assessed[1].P50Increase = ZeroRatio
    /\ assessed[1].IdleLatencyP99 = 10000000
    /\ assessed[1].LoadLatencyP99 = 25000000
    /\ assessed[1].P99Increase.num * 2 = 5 * assessed[1].P99Increase.den

\* C12: the severity is Severe when P99Increase > 5.0, else Moderate when
\* P99Increase > 3.0, else Mild when P99Increase > 1.5 or P50Increase > 2.0,
\* else None; idle 10 ms / 15 ms and loaded 25 ms / 90 ms give the ratios
\* 2.5 and 6.0 and Severe.
C12_SeverityByPriority ==
    assessed # <<>> =>
        LET r == assessed[1]
        IN  /\ r.Severity =
                  IF r.P99Increase.num > 5 * r.P99Increase.den THEN "Severe"
                  ELSE IF r.P99Increase.num > 3 * r.P99Increase.den THEN "Moderate"
                  ELSE IF \/ 2 * r.P99Increase.num > 3 * r.P99Increase.den
                          \/ r.P50Increase.num > 2 * r.P50Increase.den THEN "Mild"
                  ELSE "None"
            /\ (/\ r.IdleLatencyP50 = 10000000 /\ r.IdleLatencyP99 = 15000000
                /\ r.LoadLatencyP50 = 25000000 /\ r.LoadLatencyP99 = 90000000) =>
                  /\ 2 * r.P50Increase.num = 5 * r.P50Increase.den
                  /\ r.P99Increase.num = 6 * r.P99Increase.den
                  /\ r.Severity = "Severe"

\* the example: ratios 2.5 and 6.0, Severe
C12_Witness ==
    /\ assessed # <<>>
    /\ assessed[1].IdleLatencyP50 = 10000000
    /\ assessed[1].IdleLatencyP99 = 15000000
    /\ assessed[1].LoadLatencyP50 = 25000000
    /\ assessed[1].LoadLatencyP99 = 90000000
    /\ assessed[1].Severity = "Severe"
    /\ assessed[1].IsBufferbloated

\* C13: IsBufferbloated is TRUE exactly when P50Increase > 1.5 or
\* P99Increase > 2.0, whatever the severity.
C13_FlagByThresholds ==
    assessed # <<>> =>
        LET r == assessed[1]
        IN  r.IsBufferbloated <=>
              \/ 2 * r.P50Increase.num > 3 * r.P50Increase.den
              \/ r.P99Increase.num > 2 * r.P99Increase.den

\* the flag is raised (p50 ratio 2.0) while the severity is None (p99 ratio 1.25)
C13_Witness ==
    /\ assessed # <<>>
    /\ assessed[1].IsBufferbloated
    /\ assessed[1].Severity = "None"
    /\ assessed[1].P50Increase.num = 2 * assessed[1].P50Increase.den
    /\ 4 * assessed[1].P99Increase.num = 5 * assessed[1].P99Increase.den

(***************************************************************************)
(* Properties of the jitter calculator.                                    *)
(***************************************************************************)
\* C4: after any AddSample and Reset calls with non-negative durations, the
\* estimate is non-negative: Jitter() >= 0 and JitterDuration() >= 0, and so
\* is the Estimate CalculateJitterStats reports.
C4_JitterNonNegative ==
    /\ ~I64IsNeg(JC_Jitter(jc))
    /\ ~I64IsNeg(JC_JitterDuration(jc))
    /\ jstats # <<>> => ~I64IsNeg(jstats[1].Estimate)

\* an int64 in 0..2^31-1, one in 0..2^29-1, and the value of such a one
I64Fits(a) == a[3] = 0 /\ a[4] = 0 /\ a[2] < 32768

I64Small(a) == a[3] = 0 /\ a[4] = 0 /\ a[2] < 8192

I64Val(a) == a[1] + a[2] * Limb

Abs(x) == IF x < 0 THEN -x ELSE x

\* a step that is one AddSample call: on a fresh calculator, or a later one
IsFirstAddSample == ~jc.initialized /\ jc'.initialized

IsLaterAddSample == jc.initialized /\ jc'.initialized /\ jc'.count = jc.count + 1

\* the RTTs 10 ms, 12 ms, 10 ms, 14 ms given to CalculateJitterStats
ExampleRTTs ==
    <<[rtt |-> 10000000, times |-> 1], [rtt |-> 12000000, times |-> 1],
      [rtt |-> 10000000, times |-> 1], [rtt |-> 14000000, times |-> 1]>>

\* the first AddSample stores the sample and leaves the estimate 0
FirstAddSampleStores ==
    IsFirstAddSample =>
        (/\ jc'.jitter = I64(0)
         /\ (next >= 1 =>
                I64Val(jc'.lastTimestamp) = Microseconds(RunsAt(jrtts, next))))

\* a later AddSample: estimate + (|d - estimate| div 16), previous := v
LaterAddSampleRecurs ==
    (IsLaterAddSample /\ I64Small(jc.jitter)) =>
        (LET previous == I64Val(jc.lastTimestamp)
             v        == I64Val(jc'.lastTimestamp)
             d        == Abs(v - previous)
             estimate == I64Val(jc.jitter)
         IN  /\ I64Fits(jc'.jitter)
             /\ I64Val(jc'.jitter) = estimate + (Abs(d - estimate) \div 16)
             /\ (next >= 1 => v = Microseconds(RunsAt(jrtts, next))))

C15_ConstantStreamConverges ==
    (/\ next >= 1
     /\ Len(jrtts) = 2
     /\ jrtts[2].times >= 50
     /\ next - 1 >= jrtts[1].times + 50) => jc.jitter = I64(0)

\* C16: every AddSample after the first adds the signed sixteenth of
\* (|D| - J) to J, so that J moves toward |D|: it does not grow when |D| < J.
C16_RFC3550Update ==
    [][(IsLaterAddSample /\ I64Small(jc.jitter)) =>
          (LET D == I64Val(jc'.lastTimestamp) - I64Val(jc.lastTimestamp)
               J == I64Val(jc.jitter)
           IN  /\ I64Fits(jc'.jitter)
               /\ I64Val(jc'.jitter) = J + TruncDiv(Abs(D) - J, 16)
               /\ (Abs(D) < J => I64Val(jc'.jitter) <= J))]_vars

\* C19: Count() is the number of AddSample calls made since the calculator
\* was created, and JitterStats.Count is the number of RTTs given to
\* CalculateJitterStats.
C19_CountIsSamplesAdded ==
    /\ next >= 1 => JC_Count(jc) = next - 1
    /\ (next >= 1 /\ next > RunsLen(jrtts)) =>
          JitterStatsOf(jc).Count = RunsLen(jrtts)

(***************************************************************************)
(* Properties of the histogram.                                            *)
(***************************************************************************)
QueryOps == {"Min", "Max", "P50", "P90", "P99", "P999"}

Query(h, op) ==
    CASE op = "Min"  -> Min(h)
      [] op = "Max"  -> Max(h)
      [] op = "P50"  -> P50(h)
      [] op = "P90"  -> P90(h)
      [] op = "P99"  -> P99(h)
      [] op = "P999" -> P999(h)

\* a histogram holding the same raw samples and no sorted copy at all
Uncached(h) ==
    [samples |-> h.samples, sorted |-> <<>>, isDirty |-> TRUE, sorts |-> 0]

Occurrences(s, v) == Cardinality({k \in 1..Len(s) : s[k] = v})

\* t is s arranged in non-decreasing order
IsSortedCopyOf(t, s) ==
    /\ Len(t) = Len(s)
    /\ \A k \in 1..(Len(t) - 1) : t[k] <= t[k + 1]
    /\ \A k \in 1..Len(s) : Occurrences(t, s[k]) = Occurrences(s, s[k])

\* the percentiles (in tenths of a percent) the ordering is checked at
PercentilePoints == {0, 250, 500, 900, 990, 999, 1000}

\* C2, for Percentile in exact arithmetic: for every non-empty histogram
\* reached by AddSample/AddSamples with non-negative durations, Min <= P50 <=
\* P90 <= P99 <= P999 <= Max, and no percentile in [0,100] lies outside
\* [Min, Max].
C2_PercentileOrdering ==
    Len(hist.samples) > 0 =>
        /\ Min(hist).ret <= P50(hist).ret
        /\ P50(hist).ret <= P90(hist).ret
        /\ P90(hist).ret <= P99(hist).ret
        /\ P99(hist).ret <= P999(hist).ret
        /\ P999(hist).ret <= Max(hist).ret
        /\ \A p \in PercentilePoints :
              /\ Min(hist).ret <= Percentile(hist, p).ret
              /\ Percentile(hist, p).ret <= Max(hist).ret

\* a P90 answer interpolated strictly between two different samples
C2_Witness ==
    /\ hret.op = "P90"
    /\ Len(hist.samples) >= 3
    /\ Min(hist).ret < hret.ret
    /\ hret.ret < Max(hist).ret
    /\ P50(hist).ret < hret.ret

\* C3: the sorted copy is stale (isDirty, or absent) or is the raw samples in
\* non-decreasing order; every Min/Max/Percentile answer is the one computed
\* from all samples appended so far; and a query leaves every later answer
\* unchanged while no sample is added.
C3_SortedCacheInvariant ==
    /\ \/ hist.isDirty
       \/ hist.sorted = <<>>
       \/ IsSortedCopyOf(hist.sorted, hist.samples)
    /\ \A q \in QueryOps : Query(hist, q).ret = Query(Uncached(hist), q).ret
    /\ hret.op \in QueryOps => hret.ret = Query(Uncached(hist), hret.op).ret
    /\ \A q1 \in QueryOps, q2 \in QueryOps :
          Query(Query(hist, q1).h, q2).ret = Query(hist, q2).ret

\* a query answered from a sorted copy that differs from the raw order
C3_Witness ==
    /\ hret.op = "Max"
    /\ ~hist.isDirty
    /\ Len(hist.samples) >= 3
    /\ hist.sorted # hist.samples
    /\ hret.ret = MicrosecondsToDuration(hist.sorted[Len(hist.sorted)])

\* C17: for a non-empty histogram Percentile(0) is Min() and Percentile(100)
\* is Max().
C17_PercentileEnds ==
    Len(hist.samples) > 0 =>
        /\ Percentile(hist, 0).ret = Min(hist).ret
        /\ Percentile(hist, 1000).ret = Max(hist).ret
        /\ (hret.op = "Percentile" /\ hret.p = 0) => hret.ret = Min(hist).ret
        /\ (hret.op = "Percentile" /\ hret.p = 1000) => hret.ret = Max(hist).ret

\* Percentile(0) has returned the least sample, which was not added first
C17_Witness ==
    /\ hret.op = "Percentile"
    /\ hret.p = 0
    /\ Len(hist.samples) >= 3
    /\ hret.ret = Min(hist).ret
    /\ hret.ret < MicrosecondsToDuration(hist.samples[1])
    /\ hret.ret < Percentile(hist, 1000).ret

\* every duration field of a GetStats answer is zero
ZeroStats(st) ==
    /\ st.Min = 0 /\ st.Max = 0 /\ st.Mean = 0 /\ st.StdDev = 0
    /\ st.P50 = 0 /\ st.P90 = 0 /\ st.P99 = 0 /\ st.P999 = 0

\* p, in tenths of a percent, lies outside [0, 100]
OutOfRange(p) == p < 0 \/ p > 1000

\* C18: on an empty histogram Min, Max, Mean, StdDev, Percentile, P50, P90,
\* P99, P999 and every duration field of GetStats are zero, and Percentile(p)
\* with p < 0 or p > 100 is zero on any histogram.
C18_ZeroOnSparseInput ==
    /\ Len(hist.samples) = 0 =>
          /\ \A q \in QueryOps : Query(hist, q).ret = 0
          /\ Mean(hist).ret = 0
          /\ \A p \in PercentileArgs : Percentile(hist, p).ret = 0
          /\ \A nan \in NaNAsInt64 :
                StdDev(hist, nan).ret = 0 /\ ZeroStats(GetStats(hist, nan).ret)
          /\ hret.op = "GetStats" => ZeroStats(hret.ret)
          /\ hret.op \notin {"none", "GetStats"} => hret.ret = 0
    /\ \A p \in {a \in PercentileArgs : OutOfRange(a)} : Percentile(hist, p).ret = 0
    /\ (hret.op = "Percentile" /\ OutOfRange(hret.p)) => hret.ret = 0

\* Percentile(100.1) has returned zero on a histogram of positive samples
C18_Witness ==
    /\ hret.op = "Percentile"
    /\ hret.p = 1001
    /\ hret.ret = 0
    /\ Len(hist.samples) >= 2
    /\ Min(hist).ret > 0

(***************************************************************************)
(* Properties of the histogram's storage.                                  *)
(***************************************************************************)
\* the step is an append: DoAddSample or DoAddSamples
IsAppend == Len(hist'.samples) > Len(hist.samples)

\* an append leaves the sorted copy as it was
AppendNeverSorts == IsAppend => (hist'.sorted = hist.sorted /\ hist'.sorts = 0)

\* a step that is not an append sorts once if the sorted copy is stale and
\* not at all otherwise
QuerySortsAtMostOnce ==
    ~IsAppend =>
        /\ hist'.sorts <= hist.sorts + 1
        /\ (hist.sorts >= 1 => hist'.sorts = hist.sorts)

\* C21: the sorted copy is computed at most once between two consecutive
\* appends however many queries are made; AddSample does not sort; one
\* GetStats call sorts at most once.
C21_SortOncePerDirtyPeriod ==
    /\ [](hist.sorts <= 1)
    /\ [][AppendNeverSorts /\ QuerySortsAtMostOnce]_vars

\* GetStats has run on three samples appended out of order and has sorted
\* them once
C21_Witness ==
    /\ hret.op = "GetStats"
    /\ Len(hist.samples) = 3
    /\ hist.sorted # hist.samples
    /\ hist.sorts = 1
    /\ ~hist.isDirty

\* C22: the raw samples are the durations AddSample was called with, each in
\* whole microseconds, in call order; Count() is their number; a step that
\* makes no AddSample call leaves the raw samples as they are.
C22_SamplesAppendOnly ==
    /\ [](hist.samples = InMicroseconds(added) /\ Count(hist) = Len(added))
    /\ [][(added' = added) => (hist'.samples = hist.samples)]_vars
    /\ [][Len(added') >= Len(added)
           /\ SubSeq(hist'.samples, 1, Len(hist.samples)) = hist.samples]_vars

\* three samples added out of order and then queried: the raw samples are
\* still in the order added, beside a sorted copy in another order
C22_Witness ==
    /\ hret.op = "P50"
    /\ Len(added) = 3
    /\ added[1] > added[2]
    /\ hist.samples = InMicroseconds(added)
    /\ hist.sorted # hist.samples
    /\ ~hist.isDirty

(***************************************************************************)
(* Properties of the probers.                                              *)
(***************************************************************************)
\* the probes that have returned a result
Probed == 1..Len(presults)

\* C23: a probe is reported successful only if its read returned the echo
\* reply with the prober's packet ID and the probe's own sequence number; a
\* probe whose echo was lost is reported failed.
C23_RepliesMatched ==
    \A k \in Probed :
        /\ presults[k].Success =>
              presults[k].reply = <<[id |-> "prober", seq |-> presults[k].Sequence]>>
        /\ pfate[k] = EchoLost => ~presults[k].Success

\* the echo of probe k reached the socket sooner than Timeout after the send
EchoInTime(k) == pfate[k].kind = "echo" /\ pfate[k].delay < ProbeTimeout

\* C24: no probe waits for its echo longer than Timeout, and every probe
\* whose echo comes back within Timeout of its send is reported successful,
\* whatever became of the probes before it.
C24_TimeoutPerProbe ==
    \A k \in Probed :
        /\ presults[k].waited <= ProbeTimeout
        /\ EchoInTime(k) => presults[k].Success

(***************************************************************************)
(* Properties of the jitter summary.                                       *)
(***************************************************************************)
\* the magnitude of an estimate d, a duration in nanoseconds: in whole
\* milliseconds d is below 1 exactly when d < 1000000 ns, and below 10
\* exactly when d < 10000000 ns
MagnitudeOf(d) ==
    IF I64Less(d, I64(1000000)) THEN "Low"
    ELSE IF I64Less(d, I64(10000000)) THEN "Moderate"
    ELSE "High"

\* the step is the return of CalculateJitterStats
IsStatsReturn == jstats = <<>> /\ jstats' # <<>>

StatsFromFinalEstimate ==
    IsStatsReturn => (jstats'[1].Estimate = JC_JitterDuration(jc) /\ jc' = jc)

Float64Agrees(h) ==
    /\ \A p \in PercentilePoints \cup PercentileArgs, fused \in Fusions :
          PercentileFloat64(h, p, fused).ret = Percentile(h, p).ret
    /\ \A nan \in NaNAsInt64 : StdDevFloat64(h, nan).ret = StdDev(h, nan).ret

\* Float64Agrees for the histograms of the sample sequences Q; it holds for
\* the samples of SpecHistogram and SpecDetect, Q = SeqsUpTo(RTTs, MaxSamples + 1)
Float64AgreesOn(Q) ==
    \A q \in Q : Float64Agrees(AddSamples(NewLatencyHistogram, q))

\* the reference, in microseconds, for sorted samples s and p = p10/10 in
\* [0,100]: index = (p/100)*(n-1) = rank/1000 for the integer rank = p10*(n-1)
PercentileReference(s, p10) ==
    LET rank  == p10 * (Len(s) - 1)
        lower == rank \div 1000
        fracK == rank % 1000
    IN  IF lower + 1 > Len(s) - 1
        THEN s[lower + 1]
        ELSE (s[lower + 1] * (1000 - fracK) + s[lower + 2] * fracK) \div 1000

\* a Percentile(p) query with p in [0,100] has been answered on a non-empty
\* histogram
PercentileAnswered ==
    /\ hret.op = "Percentile"
    /\ hret.p >= 0 /\ hret.p <= 1000
    /\ Len(hist.samples) >= 1

\* C26: for n >= 1 samples and p in [0,100], Percentile(p) is the reference
\* value; so one sample is returned for every p, and the samples 100, 200,
\* 300, 400, 500 microseconds give Percentile(50) = 300 and Percentile(25) =
\* 200 microseconds.
C26_PercentileIsReference ==
    PercentileAnswered =>
        hret.ret = MicrosecondsToDuration(
                       PercentileReference(SortSlice(hist.samples), hret.p))

\* the ordering of the named percentiles as float64 computes them
OrderedInFloat64(h, fused) ==
    /\ Min(h).ret <= PercentileFloat64(h, 500, fused).ret
    /\ PercentileFloat64(h, 500, fused).ret <= PercentileFloat64(h, 900, fused).ret
    /\ PercentileFloat64(h, 900, fused).ret <= PercentileFloat64(h, 990, fused).ret
    /\ PercentileFloat64(h, 990, fused).ret <= PercentileFloat64(h, 999, fused).ret
    /\ PercentileFloat64(h, 999, fused).ret <= Max(h).ret

\* C2, for Percentile as computed: for every non-empty histogram of
\* non-negative samples Min <= P50 <= P90 <= P99 <= P999 <= Max, and the
\* answer of a Percentile(p) query with p in [0,100] is within [Min, Max].
C2_OrderingInFloat64 ==
    /\ Len(hist.samples) > 0 => \A fused \in Fusions : OrderedInFloat64(hist, fused)
    /\ PercentileAnswered =>
          (Min(hist).ret <= hret.ret /\ hret.ret <= Max(hist).ret)

\* the population variance of the samples s (microseconds) about their
\* truncated mean, computed from the samples alone
VarianceReference(s) ==
    LET m == TruncDiv(SumOf(s), Len(s))
    IN  TruncDiv(SumOf([k \in 1..Len(s) |-> (s[k] - m) * (s[k] - m)]), Len(s))

\* r is the integer square root of v: r*r <= v < (r+1)*(r+1), tested by
\* division so that no square leaves the integers of the model
IsIntegerSqrt(r, v) ==
    /\ r >= 0
    /\ (r = 0 \/ r <= v \div r)
    /\ v \div (r + 1) < r + 1

\* C27: StdDev() returns zero with fewer than 2 samples, and otherwise s
\* microseconds where s is the integer square root of the population variance
\* about the truncated mean (divisor n): s*s <= variance < (s+1)*(s+1).
C27_StdDevIsIntegerSqrt ==
    hret.op = "StdDev" =>
        IF Len(hist.samples) < 2 THEN hret.ret = 0
        ELSE /\ hret.ret % 1000 = 0
             /\ IsIntegerSqrt(hret.ret \div 1000, VarianceReference(hist.samples))

\* C27, the parts that hold: zero with fewer than 2 samples, and the integer
\* square root for a variance from 1 to 30623
C27_SmallVariances ==
    hret.op = "StdDev" =>
        IF Len(hist.samples) < 2 THEN hret.ret = 0
        ELSE LET v == VarianceReference(hist.samples)
             IN  v \in 1..30623 =>
                    /\ hret.ret % 1000 = 0
                    /\ IsIntegerSqrt(hret.ret \div 1000, v)

\* the goroutine of lines 60-72 has been started and has not returned
LoadTaskAlive == bg \in {"spawned", "select", "probing"}

\* C28: once Detect has closed stopLoad, the load goroutine eventually
\* returns (its probe calls return), and while it lives it waits only in its
\* select on ticker.C and stopLoad or in a probe call.
C28_LoadTaskExits ==
    /\ stopLoad ~> bg = "exited"
    /\ [](stopLoad => (LoadTaskAlive \/ bg = "exited"))
    /\ []((LoadTaskAlive /\ ~StepReady) =>
             \/ bg = "select" /\ ~stopLoad /\ tickerC = 0
             \/ bg = "probing" /\ bgSleep > 0)

\* the goroutine has returned although, after the stop signal, its select
\* took a tick and it made one more probe call
C28_Witness == stopLoad /\ bg = "exited" /\ bgLateStart

\* the calls of bd.probeFn in progress: made by Detect itself (lines 44 and
\* 76) and made by the load goroutine (line 67)
MainProbeCalls == IF pc \in {"idle", "measure"} THEN 1 ELSE 0
LoadProbeCalls == IF bg = "probing" THEN 1 ELSE 0

\* C29: at most two calls of the probe callback are in progress at any time,
\* at most one by Detect's own flow and at most one by the load goroutine,
\* and none by the load goroutine while the idle request is in progress.
C29_AtMostTwoProbeCalls ==
    /\ MainProbeCalls + LoadProbeCalls <= 2
    /\ pc = "idle" => (LoadProbeCalls = 0 /\ bg = "unborn")
    /\ bg = "unborn" => ~bgProbed

\* a measurement request and a load request are in progress together
C29_Witness == pc = "measure" /\ sleep > 0 /\ bg = "probing" /\ bgSleep > 0

\* the severity of r is one of the two upper tiers and r is not flagged
SevereUnflagged(r) == r.Severity \in {"Moderate", "Severe"} /\ ~r.IsBufferbloated

\* C30: in every result Detect computes, Severity "Moderate" or "Severe"
\* implies IsBufferbloated = TRUE, and so an unflagged result has Severity
\* "None" or "Mild".
C30_SeverityImpliesFlag ==
    /\ \A k \in 1..Len(assessed) :
          /\ ~SevereUnflagged(assessed[k])
          /\ ~assessed[k].IsBufferbloated => assessed[k].Severity \in {"None", "Mild"}
    /\ pc = "done" =>
          /\ ~SevereUnflagged(result)
          /\ ~result.IsBufferbloated => result.Severity \in {"None", "Mild"}

\* a result of severity "Moderate" that is flagged by its 99th percentile
\* alone: the median did not rise above 1.5 times the idle one
C30_Witness ==
    /\ Len(assessed) = 1
    /\ assessed[1].Severity = "Moderate"
    /\ assessed[1].IsBufferbloated
    /\ ~RatioGreater(assessed[1].P50Increase, 3, 2)

=========================================================================
